---- MODULE Spec2Model ----
(***************************************************************************)
(* Model of the trace decomposition and swap reconstruction engine of the  *)
(* sDAI/EURe Balancer pool incident tool (src/src/helper.rs and            *)
(* src/src/download/swap*.rs).                                             *)
(*                                                                         *)
(* Values.  A U256 / B256 word is an unbounded natural number written as   *)
(* the sequence of its base-1000 limbs, least significant limb first and   *)
(* without high zero limbs (zero is << >>).  The 256-bit width is kept by  *)
(* the checked_* operators, which compare against 2^256 itself.            *)
(* Option<T> is a sequence of length 0 (None) or 1 (Some(x)).              *)
(* Result<T> is a record [ok, val, err].                                   *)
(*                                                                         *)
(* Retrieval from the remote node (call traces, VM traces, receipts,       *)
(* block timestamps) is modelled at its interface: the data delivered is   *)
(* an input of the model, transport failures are not modelled.             *)
(***************************************************************************)
EXTENDS Integers, Sequences, FiniteSets, TLC

VARIABLES
    \* ---- fixed-point pool math (DivUp / MulUp)
    mathA, mathB, mathOp, mathRes,
    \* ---- sub-path resolver (extract_sub_vm_trace)
    rsTrace, rsPath, rsDone, rsRes,
    \* ---- storage index (StateBySubPath): the trace being indexed, the
    \* call stack of find_storage_value, the two maps, the last lookup
    ixTrace, ixStack, ixBuilt, load_map, store_map, lkQuery, lkRes,
    \* ---- BlockTimestampFetcher: its two maps and the rows of blocks.csv
    block_timestamp_by_number, block_number_by_timestamp, blocks_csv,
    \* ---- one call of SwapFetcher::process_on_swap_trace (on_swap.rs)
    osCall, osDone, osOut,
    \* ---- SwapFetcher and one run of fetch_swap_csv: the dedup map, the
    \* rows written to data/swaps.csv, the vector being returned, how the
    \* run stands, the entries taken so far, the last entry and how it
    \* ended, the diagnostic dumps written
    swap_csv_by_tx_hash_trace_path, swaps_csv, swap_csv_vec,
    fsStatus, fsError, fsCount, fsEntry, fsStep, fsDumps,
    \* ---- one call of compute_sdai_eure_from_bpt, process_on_join_pool_trace
    \* or process_on_exit_pool_trace: its arguments, whether it has
    \* returned, what it returned
    poolCall, poolDone, poolOut,
    \* ---- one call of PriceCacheInfo::try_from: the 32-byte word, whether
    \* it has returned, what it returned
    pcWord, pcDone, pcOut

mathVars == <<mathA, mathB, mathOp, mathRes>>
resolverVars == <<rsTrace, rsPath, rsDone, rsRes>>

indexVars == <<ixTrace, ixStack, ixBuilt, load_map, store_map, lkQuery, lkRes>>

timestampVars ==
    <<block_timestamp_by_number, block_number_by_timestamp, blocks_csv>>
onSwapVars == <<osCall, osDone, osOut>>
poolVars == <<poolCall, poolDone, poolOut>>
priceCacheVars == <<pcWord, pcDone, pcOut>>

fetcherVars ==
    <<swap_csv_by_tx_hash_trace_path, swaps_csv, swap_csv_vec,
      fsStatus, fsError, fsCount, fsEntry, fsStep, fsDumps>>

vars ==
    <<mathVars, resolverVars, indexVars, timestampVars, onSwapVars, fetcherVars,
      poolVars, priceCacheVars>>

\* what the operations of one component leave alone
notMathVars ==
    <<resolverVars, indexVars, timestampVars, onSwapVars, fetcherVars, poolVars,
      priceCacheVars>>
notResolverVars ==
    <<mathVars, indexVars, timestampVars, onSwapVars, fetcherVars, poolVars,
      priceCacheVars>>
notIndexVars ==
    <<mathVars, resolverVars, timestampVars, onSwapVars, fetcherVars, poolVars,
      priceCacheVars>>
notOnSwapVars ==
    <<mathVars, resolverVars, indexVars, fetcherVars, poolVars, priceCacheVars>>
notFetcherVars ==
    <<mathVars, resolverVars, indexVars, onSwapVars, poolVars, priceCacheVars>>
notPoolVars ==
    <<mathVars, resolverVars, indexVars, timestampVars, onSwapVars, fetcherVars,
      priceCacheVars>>
notPriceCacheVars ==
    <<mathVars, resolverVars, indexVars, timestampVars, onSwapVars, fetcherVars,
      poolVars>>

(***************************************************************************)
(* Option and Result                                                       *)
(***************************************************************************)
None == << >>
Some(x) == <<x>>
IsSome(o) == Len(o) = 1
IsNone(o) == Len(o) = 0
Unwrap(o) == o[1]

Ok(v) == [ok |-> TRUE, val |-> v, err |-> ""]
Err(m) == [ok |-> FALSE, val |-> << >>, err |-> m]

\* Option::ok_or_eyre
ok_or_eyre(o, m) == IF IsSome(o) THEN Ok(Unwrap(o)) ELSE Err(m)

Max2(a, b) == IF a >= b THEN a ELSE b
Min2(a, b) == IF a <= b THEN a ELSE b

(***************************************************************************)
(* Unbounded naturals as base-1000 limb sequences                          *)
(***************************************************************************)
BASE == 10 ^ 3

RECURSIVE Norm(_)
Norm(x) ==
    IF x = << >> THEN << >>
    ELSE IF x[Len(x)] = 0 THEN Norm(SubSeq(x, 1, Len(x) - 1))
    ELSE x

RECURSIVE BigOfNat(_)
BigOfNat(n) ==
    IF n = 0 THEN << >> ELSE <<n % BASE>> \o BigOfNat(n \div BASE)

Limb(x, i) == IF i <= Len(x) THEN x[i] ELSE 0

RECURSIVE CmpFrom(_, _, _)
CmpFrom(x, y, i) ==
    IF i = 0 THEN 0
    ELSE IF Limb(x, i) < Limb(y, i) THEN -1
    ELSE IF Limb(x, i) > Limb(y, i) THEN 1
    ELSE CmpFrom(x, y, i - 1)

\* -1, 0 or 1 as x <, =, > y
BigCmp(x, y) == CmpFrom(x, y, Max2(Len(x), Len(y)))
BigLt(x, y) == BigCmp(x, y) = -1
BigLe(x, y) == BigCmp(x, y) # 1
BigIsZero(x) == Norm(x) = << >>

RECURSIVE AddFrom(_, _, _, _)
AddFrom(x, y, i, c) ==
    IF i > Max2(Len(x), Len(y))
    THEN (IF c = 0 THEN << >> ELSE <<c>>)
    ELSE LET s == Limb(x, i) + Limb(y, i) + c
         IN  <<s % BASE>> \o AddFrom(x, y, i + 1, s \div BASE)

BigAdd(x, y) == Norm(AddFrom(x, y, 1, 0))

RECURSIVE SubFrom(_, _, _, _)
SubFrom(x, y, i, b) ==
    IF i > Len(x) THEN << >>
    ELSE LET d == Limb(x, i) - Limb(y, i) - b
         IN  IF d < 0
             THEN <<d + BASE>> \o SubFrom(x, y, i + 1, 1)
             ELSE <<d>> \o SubFrom(x, y, i + 1, 0)

\* x - y for x >= y
BigSub(x, y) == Norm(SubFrom(x, y, 1, 0))

RECURSIVE ConvSum(_, _, _, _)
ConvSum(x, y, k, i) ==
    IF i > Min2(k, Len(x)) THEN 0
    ELSE x[i] * y[k + 1 - i] + ConvSum(x, y, k, i + 1)

RECURSIVE MulFrom(_, _, _, _)
MulFrom(x, y, k, c) ==
    IF k > Len(x) + Len(y) - 1 THEN BigOfNat(c)
    ELSE LET s == ConvSum(x, y, k, Max2(1, k + 1 - Len(y))) + c
         IN  <<s % BASE>> \o MulFrom(x, y, k + 1, s \div BASE)

BigMul(x, y) ==
    IF x = << >> \/ y = << >> THEN << >> ELSE Norm(MulFrom(x, y, 1, 0))

\* the largest q in lo..hi with y * q <= r
RECURSIVE QDigit(_, _, _, _)
QDigit(r, y, lo, hi) ==
    IF lo = hi THEN lo
    ELSE LET mid == (lo + hi + 1) \div 2
         IN  IF BigLe(BigMul(y, <<mid>>), r)
             THEN QDigit(r, y, mid, hi)
             ELSE QDigit(r, y, lo, mid - 1)

\* long division, most significant limb first; r is the running remainder
RECURSIVE DivFrom(_, _, _, _)
DivFrom(x, y, i, r) ==
    IF i = 0 THEN [q |-> << >>, r |-> r]
    ELSE LET r1 == Norm(<<x[i]>> \o r)
             d == QDigit(r1, y, 0, BASE - 1)
             r2 == BigSub(r1, BigMul(y, <<d>>))
         IN  IF Len(r2) >= 0
             THEN LET rest == DivFrom(x, y, i - 1, r2)
                  IN  [q |-> rest.q \o <<d>>, r |-> rest.r]
             ELSE [q |-> << >>, r |-> << >>]

\* floor(x / y) and x mod y, for y # 0
BigDiv(x, y) == Norm(DivFrom(x, y, Len(x), << >>).q)
BigMod(x, y) == DivFrom(x, y, Len(x), << >>).r

RECURSIVE BigPow(_, _)
BigPow(x, n) == IF n = 0 THEN <<1>> ELSE BigMul(x, BigPow(x, n - 1))

\* short division by a one-word divisor 0 < d <= 2^16, most significant limb
\* first; r is the running remainder
RECURSIVE ShortDivFrom(_, _, _, _)
ShortDivFrom(x, d, i, r) ==
    IF i = 0 THEN [q |-> << >>, r |-> r]
    ELSE LET cur == r * BASE + x[i]
         IN  IF cur >= 0
             THEN LET rest == ShortDivFrom(x, d, i - 1, cur % d)
                  IN  [q |-> Append(rest.q, cur \div d), r |-> rest.r]
             ELSE [q |-> << >>, r |-> 0]

TWO16 == 2 ^ 16

\* floor(x / 2^(16 * n)): x without its n lowest byte pairs
RECURSIVE BigShr16(_, _)
BigShr16(x, n) ==
    IF n = 0 THEN x
    ELSE LET q == Norm(ShortDivFrom(x, TWO16, Len(x), 0).q)
         IN  IF Len(q) >= 0 THEN BigShr16(q, n - 1) ELSE << >>

\* x mod 2^(16 * n), pow = 2^(16 * n): the n lowest byte pairs of x
BigLow16(x, n, pow) == BigSub(x, BigMul(BigShr16(x, n), pow))

(***************************************************************************)
(* U256 (alloy::primitives::U256) checked arithmetic                       *)
(***************************************************************************)
\* 2^256
TWO256 ==
    <<936, 639, 129, 913, 7, 584, 457, 39, 564, 640, 665, 984, 269,
      853, 907, 687, 8, 985, 570, 423, 195, 316, 237, 89, 792, 115>>
U256_MAX == BigSub(TWO256, <<1>>)
\* 2^128, 2^96 and 2^32
TWO128 ==
    <<456, 211, 768, 431, 607, 374, 463, 463, 938, 920, 366, 282, 340>>
TWO96 == <<336, 950, 543, 593, 337, 264, 514, 162, 228, 79>>
TWO32 == <<296, 967, 294, 4>>

u256(n) == BigOfNat(n)
FitsU256(x) == BigLt(x, TWO256)

\* Some(x) when x fits 256 bits: the Option of a checked operation
CheckedU256(x) == IF FitsU256(x) THEN Some(x) ELSE None

checked_mul_wrapping(a, b) == Some(BigMod(BigMul(a, b), TWO256))
checked_mul(a, b) == CheckedU256(BigMul(a, b))

checked_add(a, b) == CheckedU256(BigAdd(a, b))

checked_sub(a, b) == IF BigLt(a, b) THEN None ELSE Some(BigSub(a, b))
checked_div(a, b) == IF BigIsZero(b) THEN None ELSE Some(BigDiv(a, b))
checked_pow(a, n) == CheckedU256(BigPow(a, n))

div_up_no_zero_case(a, b) ==
    LET add(d) ==
            IF IsNone(d) THEN Err("div_up a / b overflow") ELSE
            ok_or_eyre(checked_add(Unwrap(d), u256(1)),
                       "div_up (((a * 10**18) - 1) / b) + 1 overflow")
        div(s) ==
            IF IsNone(s) THEN Err("div_up (a / b) - 1 overflow") ELSE
            add(checked_div(Unwrap(s), b))
        sub(m) ==
            IF IsNone(m) THEN Err("div_up a * 10**18 overflow") ELSE
            div(checked_sub(Unwrap(m), u256(1)))
        mul(one) ==
            IF IsNone(one) THEN Err("10**18") ELSE
            sub(checked_mul(a, Unwrap(one)))
    IN  mul(checked_pow(u256(10), 18))

div_up_round_down(a, b) ==
    LET div(m) ==
            IF IsNone(m) THEN Err("div_up a * 10**18 overflow") ELSE
            ok_or_eyre(checked_div(Unwrap(m), b), "div_up a / b overflow")
        mul(one) ==
            IF IsNone(one) THEN Err("10**18") ELSE
            div(checked_mul(a, Unwrap(one)))
    IN  IF BigIsZero(a) THEN Ok(u256(0))
        ELSE mul(checked_pow(u256(10), 18))

div_up_no_sub_one(a, b) ==
    LET add(d) ==
            IF IsNone(d) THEN Err("div_up a / b overflow") ELSE
            ok_or_eyre(checked_add(Unwrap(d), u256(1)),
                       "div_up (((a * 10**18) - 1) / b) + 1 overflow")
        div(m) ==
            IF IsNone(m) THEN Err("div_up a * 10**18 overflow") ELSE
            add(checked_div(Unwrap(m), b))
        mul(one) ==
            IF IsNone(one) THEN Err("10**18") ELSE
            div(checked_mul(a, Unwrap(one)))
    IN  IF BigIsZero(a) THEN Ok(u256(0))
        ELSE mul(checked_pow(u256(10), 18))

div_up_wrapping(a, b) ==
    LET add(d) ==
            IF IsNone(d) THEN Err("div_up a / b overflow") ELSE
            ok_or_eyre(checked_add(Unwrap(d), u256(1)),
                       "div_up (((a * 10**18) - 1) / b) + 1 overflow")
        div(s) ==
            IF IsNone(s) THEN Err("div_up (a / b) - 1 overflow") ELSE
            add(checked_div(Unwrap(s), b))
        sub(m) == div(checked_sub(Unwrap(m), u256(1)))
        mul(one) ==
            IF IsNone(one) THEN Err("10**18") ELSE
            sub(checked_mul_wrapping(a, Unwrap(one)))
    IN  IF BigIsZero(a) THEN Ok(u256(0))
        ELSE mul(checked_pow(u256(10), 18))

\* DivUp::div_up(self = a, b); each `?` is the IF IsNone ... THEN Err
div_up(a, b) ==
    LET add(d) ==
            IF IsNone(d) THEN Err("div_up a / b overflow") ELSE
            ok_or_eyre(checked_add(Unwrap(d), u256(1)),
                       "div_up (((a * 10**18) - 1) / b) + 1 overflow")
        div(s) ==
            IF IsNone(s) THEN Err("div_up (a / b) - 1 overflow") ELSE
            add(checked_div(Unwrap(s), b))
        sub(m) ==
            IF IsNone(m) THEN Err("div_up a * 10**18 overflow") ELSE
            div(checked_sub(Unwrap(m), u256(1)))
        mul(one) ==
            IF IsNone(one) THEN Err("10**18") ELSE
            sub(checked_mul(a, Unwrap(one)))
    IN  IF BigIsZero(a) THEN Ok(u256(0))
        ELSE mul(checked_pow(u256(10), 18))

\* MulUp::mul_up(self = a, b)
mul_up(a, b) ==
    LET add(d) ==
            IF IsNone(d) THEN Err("10**18 = 0") ELSE
            ok_or_eyre(checked_add(Unwrap(d), u256(1)),
                       "mul_up (((a * b) - 1) / 10**18) + 1 overflow")
        div(one, s) ==
            IF IsNone(s) THEN Err("mul_up a * b = 0") ELSE
            add(checked_div(Unwrap(s), Unwrap(one)))
        sub(one, m) ==
            IF IsNone(m) THEN Err("mul_up a * b overflow") ELSE
            div(one, checked_sub(Unwrap(m), u256(1)))
        mul(one) ==
            IF IsNone(one) THEN Err("10**18") ELSE
            sub(one, checked_mul(a, b))
    IN  IF BigIsZero(a) \/ BigIsZero(b) THEN Ok(u256(0))
        ELSE mul(checked_pow(u256(10), 18))

(***************************************************************************)
(* VM execution traces (alloy parity VmTrace / VmInstruction)              *)
(***************************************************************************)
\* VmTrace { code, ops }
VmTrace(code, ops) == [code |-> code, ops |-> ops]
\* VmInstruction { pc, ex: Option<VmExecutedOperation>, sub: Option<VmTrace> }
VmInstruction(pc, ex, sub) == [pc |-> pc, ex |-> ex, sub |-> sub]
\* VmExecutedOperation { push, store: Option<StorageDelta> }
VmExecutedOperation(push, store) == [push |-> push, store |-> store]
\* StorageDelta { key, val }
StorageDelta(key, val) == [key |-> key, val |-> val]

Range(f) == {f[i] : i \in DOMAIN f}

\* b256!("000000000000000000000000000000000000000000636F6e736F6c652e6c6f67")
console_address == <<943, 259, 568, 145, 281, 281, 876, 209, 120>>

\* the loop of is_console_static_call over the instructions before the
\* call, last first; i is the 1-based index of the instruction looked at
RECURSIVE ConsoleScan(_, _)
ConsoleScan(ops, i) ==
    IF i = 0 THEN FALSE
    ELSE IF IsSome(ops[i].sub) THEN FALSE
    ELSE IF IsNone(ops[i].ex) THEN ConsoleScan(ops, i - 1)
    ELSE IF \E p \in Range(Unwrap(ops[i].ex).push) : p = console_address
         THEN TRUE
         ELSE ConsoleScan(ops, i - 1)

is_console_static_call_never(vm_trace, static_call_position) ==
    IF static_call_position > Len(vm_trace.ops)
    THEN Err("Failed to get instruction for check is console static call")
    ELSE Ok(FALSE)

\* is_console_static_call(vm_trace, static_call_position), position 0-based
is_console_static_call(vm_trace, static_call_position) ==
    IF static_call_position > Len(vm_trace.ops)
    THEN Err("Failed to get instruction for check is console static call")
    ELSE Ok(ConsoleScan(vm_trace.ops, static_call_position))

\* the inner loop of extract_sub_vm_trace from the instruction at 1-based
\* index i on, with n = sub_trace_to_take: the trace and the counter it
\* leaves, or the error is_console_static_call returned
RECURSIVE TakeSubTrace(_, _, _)
TakeSubTrace(vm_trace, i, n) ==
    IF i > Len(vm_trace.ops)
    THEN [failed |-> FALSE, trace |-> vm_trace, n |-> n, err |-> ""]
    ELSE IF IsNone(vm_trace.ops[i].sub) THEN TakeSubTrace(vm_trace, i + 1, n)
    ELSE LET sub == Unwrap(vm_trace.ops[i].sub)
             console == is_console_static_call(vm_trace, i - 1)
         IN  IF sub.ops = << >> /\ ~console.ok
             THEN [failed |-> TRUE, trace |-> vm_trace, n |-> n, err |-> console.err]
             ELSE IF sub.ops = << >> /\ ~console.val
             THEN TakeSubTrace(vm_trace, i + 1, n)
             ELSE IF n = 0
             THEN [failed |-> FALSE, trace |-> sub, n |-> 0, err |-> ""]
             ELSE TakeSubTrace(vm_trace, i + 1, n - 1)

\* the outer loop of extract_sub_vm_trace from the k-th path segment on
RECURSIVE ExtractFrom(_, _, _)
ExtractFrom(vm_trace, trace_address, k) ==
    IF k > Len(trace_address) THEN Ok(vm_trace)
    ELSE LET r == TakeSubTrace(vm_trace, 1, trace_address[k])
         IN  IF r.failed THEN Err(r.err)
             ELSE IF r.n # 0 THEN Err("trace_address is out of bounds")
             ELSE ExtractFrom(r.trace, trace_address, k + 1)

\* extract_sub_vm_trace(vm_trace, trace_address)
extract_sub_vm_trace(vm_trace, trace_address) ==
    IF trace_address = << >> THEN Ok(vm_trace)
    ELSE ExtractFrom(vm_trace, trace_address, 1)

(***************************************************************************)
(* StateBySubPath: the storage index                                       *)
(***************************************************************************)
SLOAD_OPCODE == 84

\* slice::get / Bytes::get with a 0-based index
Get(q, i) == IF i < Len(q) THEN Some(q[i + 1]) ELSE None
\* slice::first / slice::last
First(q) == IF q = << >> THEN None ELSE Some(q[1])
Last(q) == IF q = << >> THEN None ELSE Some(q[Len(q)])

\* HashMap::new / BTreeMap::new: the map with no key
EmptyMap == << >>

\* a variant that looks for the SLOAD at the instruction's own counter
extract_storage_load_own_pc(instruction, next_instruction, code) ==
    LET opcode == Get(code, instruction.pc) IN
    IF IsNone(opcode) THEN None ELSE
    IF Unwrap(opcode) # SLOAD_OPCODE THEN None ELSE
    IF IsNone(instruction.ex) THEN None ELSE
    LET key == Last(Unwrap(instruction.ex).push) IN
    IF IsNone(key) THEN None ELSE
    IF IsNone(next_instruction.ex) THEN None ELSE
    LET value == Last(Unwrap(next_instruction.ex).push) IN
    IF IsNone(value) THEN None ELSE
    Some(<<Unwrap(key), Unwrap(value)>>)

\* StateBySubPath::extract_storage_load
extract_storage_load(instruction, next_instruction, code) ==
    LET opcode == Get(code, next_instruction.pc) IN
    IF IsNone(opcode) THEN None ELSE
    IF Unwrap(opcode) # SLOAD_OPCODE THEN None ELSE
    IF IsNone(instruction.ex) THEN None ELSE
    LET key == Last(Unwrap(instruction.ex).push) IN
    IF IsNone(key) THEN None ELSE
    IF IsNone(next_instruction.ex) THEN None ELSE
    LET value == Last(Unwrap(next_instruction.ex).push) IN
    IF IsNone(value) THEN None ELSE
    Some(<<Unwrap(key), Unwrap(value)>>)

\* StateBySubPath::extract_storage_store
extract_storage_store(instruction) ==
    IF IsNone(instruction.ex) THEN None ELSE
    LET storage == Unwrap(instruction.ex).store IN
    IF IsNone(storage) THEN None ELSE
    Some(<<Unwrap(storage).key, Unwrap(storage).val>>)

upsert_in_map_overwrite(storage_map, storage_key, storage_value, sub_path) ==
    LET with_key ==
            IF storage_key \in DOMAIN storage_map THEN storage_map
            ELSE storage_map @@ (storage_key :> EmptyMap)
        sub_path_map == with_key[storage_key]
        with_path ==
            IF sub_path \in DOMAIN sub_path_map THEN sub_path_map
            ELSE sub_path_map @@ (sub_path :> << >>)
    IN  [with_key EXCEPT ![storage_key] =
            [with_path EXCEPT ![sub_path] = <<storage_value>>]]

\* StateBySubPath::upsert_in_map
upsert_in_map(storage_map, storage_key, storage_value, sub_path) ==
    LET with_key ==
            IF storage_key \in DOMAIN storage_map THEN storage_map
            ELSE storage_map @@ (storage_key :> EmptyMap)
        sub_path_map == with_key[storage_key]
        with_path ==
            IF sub_path \in DOMAIN sub_path_map THEN sub_path_map
            ELSE sub_path_map @@ (sub_path :> << >>)
    IN  [with_key EXCEPT ![storage_key] =
            [with_path EXCEPT ![sub_path] = Append(@, storage_value)]]

\* Position::First, Position::Last, Position::Id(id)
PositionFirst == [kind |-> "First", id |-> 0]
PositionLast == [kind |-> "Last", id |-> 0]
PositionId(id) == [kind |-> "Id", id |-> id]

\* the lookup shared by get_load_value and get_store_value
GetValue(storage_map, storage_key, sub_path, position) ==
    IF storage_key \notin DOMAIN storage_map THEN None ELSE
    IF sub_path \notin DOMAIN storage_map[storage_key] THEN None ELSE
    LET values == storage_map[storage_key][sub_path] IN
    CASE position.kind = "First" -> First(values)
      [] position.kind = "Last" -> Last(values)
      [] position.kind = "Id" -> Get(values, position.id)

get_load_value_from_store_map(lmap, smap, storage_key, sub_path, position) ==
    GetValue(smap, storage_key, sub_path, position)

\* StateBySubPath::get_load_value(self = (lmap, smap), ...)
get_load_value(lmap, smap, storage_key, sub_path, position) ==
    GetValue(lmap, storage_key, sub_path, position)

\* StateBySubPath::get_store_value(self = (lmap, smap), ...)
get_store_value(lmap, smap, storage_key, sub_path, position) ==
    GetValue(smap, storage_key, sub_path, position)

\* One call of find_storage_value in progress: the trace it walks, its
\* sub_path, the 1-based index of the instruction the loop is at, and
\* sub_path_counter
Frame(vm_trace, sub_path, position, sub_path_counter) ==
    [vm_trace |-> vm_trace, sub_path |-> sub_path, position |-> position,
     sub_path_counter |-> sub_path_counter]

\* StateBySubPath::find_storage_value from instruction i (1-based) on, with
\* sub_path_counter = counter; self is [load_map, store_map]
RECURSIVE FindStorageValueFrom(_, _, _, _, _)
FindStorageValueFrom(self, vm_trace, sub_path, i, counter) ==
    IF i > Len(vm_trace.ops) THEN self
    ELSE LET instruction == vm_trace.ops[i]
             load == IF i + 1 <= Len(vm_trace.ops)
                     THEN extract_storage_load(instruction, vm_trace.ops[i + 1],
                                               vm_trace.code)
                     ELSE None
             store == extract_storage_store(instruction)
             lmap == IF IsSome(load)
                     THEN upsert_in_map(self.load_map, Unwrap(load)[1],
                                        Unwrap(load)[2], sub_path)
                     ELSE self.load_map
             smap == IF IsSome(store)
                     THEN upsert_in_map(self.store_map, Unwrap(store)[1],
                                        Unwrap(store)[2], sub_path)
                     ELSE self.store_map
             self1 == [load_map |-> lmap, store_map |-> smap]
             recurse == IF IsSome(instruction.sub)
                        THEN Unwrap(instruction.sub).ops # << >>
                        ELSE FALSE
         IN  IF recurse
             THEN FindStorageValueFrom(
                      FindStorageValueFrom(self1, Unwrap(instruction.sub),
                                           Append(sub_path, counter), 1, 0),
                      vm_trace, sub_path, i + 1, counter + 1)
             ELSE FindStorageValueFrom(self1, vm_trace, sub_path, i + 1, counter)

find_storage_value(self, vm_trace, sub_path) ==
    FindStorageValueFrom(self, vm_trace, sub_path, 1, 0)

\* StateBySubPath::new
StateBySubPath_new(vm_trace) ==
    find_storage_value([load_map |-> EmptyMap, store_map |-> EmptyMap],
                       vm_trace, << >>)

(***************************************************************************)
(* Strings: a String is the sequence of its characters                     *)
(***************************************************************************)
HexChars ==
    <<"0", "1", "2", "3", "4", "5", "6", "7", "8", "9",
      "a", "b", "c", "d", "e", "f">>

\* usize::to_string / u64::to_string
RECURSIVE NatToString(_)
NatToString(n) ==
    IF n < 10 THEN <<HexChars[n + 1]>>
    ELSE Append(NatToString(n \div 10), HexChars[(n % 10) + 1])

\* the three decimal digits of a limb below the highest one
LimbToString(l) ==
    <<HexChars[(l \div 100) + 1], HexChars[((l \div 10) % 10) + 1],
      HexChars[(l % 10) + 1]>>

RECURSIVE LowLimbsToString(_, _)
LowLimbsToString(x, i) ==
    IF i = 0 THEN << >>
    ELSE LimbToString(x[i]) \o LowLimbsToString(x, i - 1)

\* U256::to_string: decimal, no leading zero, "0" for zero
U256_to_string(x) ==
    IF x = << >> THEN <<"0">>
    ELSE NatToString(x[Len(x)]) \o LowLimbsToString(x, Len(x) - 1)

\* the last n hexadecimal digits of x
RECURSIVE HexDigits(_, _)
HexDigits(x, n) ==
    IF n = 0 THEN << >>
    ELSE IF x = << >> THEN [i \in 1..n |-> "0"]
    ELSE LET qr == ShortDivFrom(x, 16, Len(x), 0)
             q == Norm(qr.q)
         IN  IF Len(q) >= 0
             THEN Append(HexDigits(q, n - 1), HexChars[qr.r + 1])
             ELSE << >>

\* TxHash::to_string (B256 Display): 0x and the 64 hexadecimal digits
B256_to_string(h) == <<"0", "x">> \o HexDigits(h, 64)

\* StringifyArrayUsize::stringify_vec_usize
RECURSIVE stringify_vec_usize(_)
stringify_vec_usize(path) ==
    IF path = << >> THEN << >>
    ELSE IF Len(path) = 1 THEN NatToString(path[1])
    ELSE NatToString(path[1]) \o <<"-">> \o stringify_vec_usize(Tail(path))

\* slice::split_at(mid) with mid = len - 1 computed in usize: on the empty
\* slice the subtraction overflows (panic in a build with overflow checks,
\* otherwise mid = usize::MAX > len and split_at panics)
SplitLastPanics(path) == path = << >>
SplitLastHead(path) == SubSeq(path, 1, Len(path) - 1)
SplitLastTail(path) == SubSeq(path, Len(path), Len(path))

(***************************************************************************)
(* download/swap.rs: pool constants, share ratio, price cache              *)
(***************************************************************************)
BALANCER_SDAI_EURE_POOL_ADDRESS == "dd439304a77f54b1f7854751ac1169b279591ef7"
SDAI_ADDRESS == "af204776c7245bF4147c2612BF6e5972Ee483701"
EURE_ADDRESS == "cB444e90D8198415266c6a2724b7900fb12FC56E"
SDAI_ARRAY_INDEX == 0
EURE_ARRAY_INDEX == 1

BPT_BALANCE_POOL_STORAGE_KEY ==
    <<929, 258, 908, 938, 252, 771, 132, 946, 305, 942, 220, 158, 65,
      857, 804, 535, 275, 577, 48, 99, 12, 830, 317, 547, 355, 57>>
BPT_TOTAL_SUPPLY_STORAGE_KEY == u256(2)
SDAI_PRICE_CACHE_KEY ==
    <<347, 725, 698, 240, 499, 356, 642, 583, 91, 751, 202, 779, 452,
      776, 977, 105, 234, 226, 161, 290, 178, 919, 631, 41, 980, 8>>
EURE_PRICE_CACHE_KEY ==
    <<911, 459, 597, 324, 911, 759, 272, 872, 643, 24, 17, 257, 785,
      756, 130, 544, 24, 580, 614, 932, 764, 823, 764, 199, 934, 84>>

\* eyre::WrapErr::wrap_err: the report shows the outer message
wrap_err(r, m) == IF r.ok THEN r ELSE Err(m)

\* U256::from_be_slice(value.split_at(16).1): the low 16 bytes of the word
Low16Bytes(word) == BigLow16(word, 8, TWO128)

\* compute_bpt_ratio dividing by the total supply, the pool's own balance
\* not subtracted
compute_bpt_ratio_total_supply(state_by_sub_path, bpt_in_out, is_store, bpt_balance_pool_trace_address, bpt_balance_pool_position, bpt_total_supply_trace_address, bpt_total_supply_position) ==
    LET get_storage(storage_key, trace_address, position) ==
            IF is_store
            THEN get_store_value(state_by_sub_path.load_map,
                                 state_by_sub_path.store_map,
                                 storage_key, trace_address, position)
            ELSE get_load_value(state_by_sub_path.load_map,
                                state_by_sub_path.store_map,
                                storage_key, trace_address, position)
        ratio(bpt_virtual_supply) ==
            IF IsNone(bpt_virtual_supply)
            THEN Err("bpt_balance_pool is bigger than bpt_total_supply") ELSE
            wrap_err(div_up(bpt_in_out, Unwrap(bpt_virtual_supply)),
                     "Failed to div_up bpt_swap by bpt_virtual_supply")
        supply(bpt_balance_pool, supply_word) ==
            IF IsNone(supply_word) THEN Err("Failed to get bpt_total_supply") ELSE
            ratio(Some(Low16Bytes(Unwrap(supply_word))))
        balance(balance_word) ==
            IF IsNone(balance_word) THEN Err("Failed to get bpt_balance_pool") ELSE
            supply(Low16Bytes(Unwrap(balance_word)),
                   get_storage(BPT_TOTAL_SUPPLY_STORAGE_KEY,
                               bpt_total_supply_trace_address,
                               bpt_total_supply_position))
    IN  balance(get_storage(BPT_BALANCE_POOL_STORAGE_KEY,
                            bpt_balance_pool_trace_address,
                            bpt_balance_pool_position))

compute_bpt_ratio(state_by_sub_path, bpt_in_out, is_store, bpt_balance_pool_trace_address, bpt_balance_pool_position, bpt_total_supply_trace_address, bpt_total_supply_position) ==
    LET get_storage(storage_key, trace_address, position) ==
            IF is_store
            THEN get_store_value(state_by_sub_path.load_map,
                                 state_by_sub_path.store_map,
                                 storage_key, trace_address, position)
            ELSE get_load_value(state_by_sub_path.load_map,
                                state_by_sub_path.store_map,
                                storage_key, trace_address, position)
        ratio(bpt_virtual_supply) ==
            IF IsNone(bpt_virtual_supply)
            THEN Err("bpt_balance_pool is bigger than bpt_total_supply") ELSE
            wrap_err(div_up(bpt_in_out, Unwrap(bpt_virtual_supply)),
                     "Failed to div_up bpt_swap by bpt_virtual_supply")
        supply(bpt_balance_pool, supply_word) ==
            IF IsNone(supply_word) THEN Err("Failed to get bpt_total_supply") ELSE
            ratio(checked_sub(Low16Bytes(Unwrap(supply_word)), bpt_balance_pool))
        balance(balance_word) ==
            IF IsNone(balance_word) THEN Err("Failed to get bpt_balance_pool") ELSE
            supply(Low16Bytes(Unwrap(balance_word)),
                   get_storage(BPT_TOTAL_SUPPLY_STORAGE_KEY,
                               bpt_total_supply_trace_address,
                               bpt_total_supply_position))
    IN  balance(get_storage(BPT_BALANCE_POOL_STORAGE_KEY,
                            bpt_balance_pool_trace_address,
                            bpt_balance_pool_position))

\* returns Ok(<<bpt_hold_sdai, bpt_hold_eure>>)
compute_sdai_eure_from_bpt(state_by_sub_path, sub_trace_address, bpt_mint_burn, is_bpt_mint, balances) ==
    LET hold_eure(bpt_hold_sdai, bpt_hold_eure) ==
            IF ~bpt_hold_eure.ok
            THEN Err("Failed to mul_up eure_balance_pool by bpt_ratio") ELSE
            Ok(<<bpt_hold_sdai.val, bpt_hold_eure.val>>)
        hold_sdai(bpt_ratio, eure_balance_pool, bpt_hold_sdai) ==
            IF ~bpt_hold_sdai.ok
            THEN Err("Failed to mul_up sdai_balance_pool by bpt_ratio") ELSE
            hold_eure(bpt_hold_sdai,
                      mul_up(Unwrap(eure_balance_pool), bpt_ratio.val))
        holdings(bpt_ratio, sdai_balance_pool, eure_balance_pool) ==
            IF ~bpt_ratio.ok THEN Err("Failed to compute bpt ratio") ELSE
            IF IsNone(sdai_balance_pool)
            THEN Err("sDAI balance of the pool not found") ELSE
            IF IsNone(eure_balance_pool)
            THEN Err("EURe balance of the pool not found") ELSE
            hold_sdai(bpt_ratio, eure_balance_pool,
                      mul_up(Unwrap(sdai_balance_pool), bpt_ratio.val))
    IN  holdings(compute_bpt_ratio(state_by_sub_path, bpt_mint_burn,
                                   is_bpt_mint, << >>, PositionFirst,
                                   sub_trace_address, PositionLast),
                 Get(balances, SDAI_ARRAY_INDEX),
                 Get(balances, EURE_ARRAY_INDEX))

\* a variant that reads price_old and price_new from each other's bytes
PriceCacheInfo_try_from_swapped(storage_value) ==
    LET info(bytes_0_20, bytes_0_8, bytes_0_4) ==
            Ok([last_update |-> bytes_0_4,
                duration |-> BigSub(bytes_0_8, BigMul(bytes_0_4, TWO32)),
                price_old |->
                    U256_to_string(BigSub(storage_value,
                                          BigMul(bytes_0_20, TWO96))),
                price_new |->
                    U256_to_string(BigSub(bytes_0_20,
                                          BigMul(bytes_0_8, TWO96)))])
        above_duration(bytes_0_20, bytes_0_8) ==
            info(bytes_0_20, bytes_0_8, BigShr16(bytes_0_8, 2))
        above_price_old(bytes_0_20) ==
            above_duration(bytes_0_20, BigShr16(bytes_0_20, 6))
    IN  above_price_old(BigShr16(storage_value, 6))

\* PriceCacheInfo::try_from(B256): bytes 0..4, 4..8, 8..20 and 20..32 of the
\* big-endian word; every slice of a 32-byte word exists and converts
PriceCacheInfo_try_from(storage_value) ==
    LET info(bytes_0_20, bytes_0_8, bytes_0_4) ==
            Ok([last_update |-> bytes_0_4,
                duration |-> BigSub(bytes_0_8, BigMul(bytes_0_4, TWO32)),
                price_old |->
                    U256_to_string(BigSub(bytes_0_20, BigMul(bytes_0_8, TWO96))),
                price_new |->
                    U256_to_string(BigSub(storage_value,
                                          BigMul(bytes_0_20, TWO96)))])
        above_duration(bytes_0_20, bytes_0_8) ==
            info(bytes_0_20, bytes_0_8, BigShr16(bytes_0_8, 2))
        above_price_old(bytes_0_20) ==
            above_duration(bytes_0_20, BigShr16(bytes_0_20, 6))
    IN  above_price_old(BigShr16(storage_value, 6))

\* returns Ok(<<sdai info, eure info>>)
extract_price_cache_info_sdai_eure(state_by_sub_path, sub_trace_address) ==
    LET both(sdai_info, eure_info) ==
            IF ~sdai_info.ok THEN sdai_info ELSE
            IF ~eure_info.ok THEN eure_info ELSE
            Ok(<<sdai_info.val, eure_info.val>>)
        caches(sdai_price_cache, eure_price_cache) ==
            IF IsNone(sdai_price_cache)
            THEN Err("Failed to get sDAI price cache") ELSE
            IF IsNone(eure_price_cache)
            THEN Err("Failed to get EURe price cache") ELSE
            both(PriceCacheInfo_try_from(Unwrap(sdai_price_cache)),
                 PriceCacheInfo_try_from(Unwrap(eure_price_cache)))
    IN  caches(get_load_value(state_by_sub_path.load_map,
                              state_by_sub_path.store_map,
                              SDAI_PRICE_CACHE_KEY, sub_trace_address,
                              PositionLast),
               get_load_value(state_by_sub_path.load_map,
                              state_by_sub_path.store_map,
                              EURE_PRICE_CACHE_KEY, sub_trace_address,
                              PositionLast))

\* helper.rs fetch_sub_vm_trace: the node delivers the VM trace of the
\* transaction, the sub-trace is then extracted
fetch_sub_vm_trace(tx_vm_trace, trace_address) ==
    extract_sub_vm_trace(tx_vm_trace, trace_address)

(***************************************************************************)
(* download/swap/on_swap.rs                                                *)
(***************************************************************************)
\* sol! enum SwapKind
SwapKinds == {"GIVEN_IN", "GIVEN_OUT"}

\* the fields of SwapRequest and onSwapCall that the code reads, and kind
SwapRequest(kind, tokenIn, tokenOut, amount) ==
    [kind |-> kind, tokenIn |-> tokenIn, tokenOut |-> tokenOut, amount |-> amount]
onSwapCall(swapRequest, balances) ==
    [swapRequest |-> swapRequest, balances |-> balances]

\* SwapCsv as built by on_swap.rs
SwapCsv(is_buy_eure, sdai_amount, eure_amount, block_number, block_timestamp, tx_hash, trace_path) ==
    [is_buy_eure |-> is_buy_eure, sdai_amount |-> sdai_amount,
     eure_amount |-> eure_amount, block_number |-> block_number,
     block_timestamp |-> block_timestamp, tx_hash |-> tx_hash,
     trace_path |-> trace_path]

compute_swap_csv_sdai_to_eure_swapped(swap_in, eure_received, block_number, block_timestamp, tx_hash, trace_path) ==
    SwapCsv(TRUE, U256_to_string(eure_received),
            U256_to_string(swap_in.swapRequest.amount),
            block_number, block_timestamp, B256_to_string(tx_hash), trace_path)

compute_swap_csv_sdai_to_eure(swap_in, eure_received, block_number, block_timestamp, tx_hash, trace_path) ==
    SwapCsv(TRUE, U256_to_string(swap_in.swapRequest.amount),
            U256_to_string(eure_received),
            block_number, block_timestamp, B256_to_string(tx_hash), trace_path)

compute_swap_csv_eure_to_sdai(swap_in, sdai_received, block_number, block_timestamp, tx_hash, trace_path) ==
    SwapCsv(FALSE, U256_to_string(sdai_received),
            U256_to_string(swap_in.swapRequest.amount),
            block_number, block_timestamp, B256_to_string(tx_hash), trace_path)

\* compute_swap_csv_bpt_to_sdai with the difference clamped at zero
compute_swap_csv_bpt_to_sdai_saturating(state_by_sub_path, sub_trace_address, swap_in, received, block_number, block_timestamp, tx_hash, trace_path) ==
    LET record(eure_from_bpt, swapped) ==
            Ok(SwapCsv(FALSE,
                       U256_to_string(IF IsNone(swapped) THEN u256(0)
                                      ELSE Unwrap(swapped)),
                       U256_to_string(eure_from_bpt), block_number,
                       block_timestamp, B256_to_string(tx_hash), trace_path))
        swap(from_bpt) ==
            IF ~from_bpt.ok
            THEN Err("Failed to compute the amount of sdai/eure from bpt ownership") ELSE
            record(from_bpt.val[2], checked_sub(received, from_bpt.val[1]))
    IN  swap(compute_sdai_eure_from_bpt(state_by_sub_path, sub_trace_address,
                                        swap_in.swapRequest.amount, FALSE,
                                        swap_in.balances))

compute_swap_csv_bpt_to_sdai(state_by_sub_path, sub_trace_address, swap_in, received, block_number, block_timestamp, tx_hash, trace_path) ==
    LET record(eure_from_bpt, swapped) ==
            IF IsNone(swapped)
            THEN Err("The amount of sDAI received is less than the amount of sDAI from BPT ownership") ELSE
            Ok(SwapCsv(FALSE, U256_to_string(Unwrap(swapped)),
                       U256_to_string(eure_from_bpt), block_number,
                       block_timestamp, B256_to_string(tx_hash), trace_path))
        swap(from_bpt) ==
            IF ~from_bpt.ok
            THEN Err("Failed to compute the amount of sdai/eure from bpt ownership") ELSE
            record(from_bpt.val[2], checked_sub(received, from_bpt.val[1]))
    IN  swap(compute_sdai_eure_from_bpt(state_by_sub_path, sub_trace_address,
                                        swap_in.swapRequest.amount, FALSE,
                                        swap_in.balances))

compute_swap_csv_bpt_to_eure(state_by_sub_path, sub_trace_address, swap_in, received, block_number, block_timestamp, tx_hash, trace_path) ==
    LET record(sdai_from_bpt, swapped) ==
            IF IsNone(swapped)
            THEN Err("The amount of EURe received is less than the amount of EURe from BPT ownership") ELSE
            Ok(SwapCsv(TRUE, U256_to_string(sdai_from_bpt),
                       U256_to_string(Unwrap(swapped)), block_number,
                       block_timestamp, B256_to_string(tx_hash), trace_path))
        swap(from_bpt) ==
            IF ~from_bpt.ok
            THEN Err("Failed to compute the amount of sdai/eure from bpt ownership") ELSE
            record(from_bpt.val[1], checked_sub(received, from_bpt.val[2]))
    IN  swap(compute_sdai_eure_from_bpt(state_by_sub_path, sub_trace_address,
                                        swap_in.swapRequest.amount, FALSE,
                                        swap_in.balances))

\* a variant that stores balance + amount back before the pro-rata values
compute_swap_csv_sdai_to_bpt_stored(state_by_sub_path, sub_trace_address, swap_in, received, block_number, block_timestamp, tx_hash, trace_path) ==
    LET record(eure_from_bpt, swapped) ==
            IF IsNone(swapped)
            THEN Err("The amount of sDAI swapped is less than the amount of sDAI from BPT ownership") ELSE
            Ok(SwapCsv(TRUE, U256_to_string(Unwrap(swapped)),
                       U256_to_string(eure_from_bpt), block_number,
                       block_timestamp, B256_to_string(tx_hash), trace_path))
        swap(from_bpt) ==
            IF ~from_bpt.ok
            THEN Err("Failed to compute the amount of sdai/eure from bpt ownership") ELSE
            record(from_bpt.val[2],
                   checked_sub(swap_in.swapRequest.amount, from_bpt.val[1]))
        balance == Get(swap_in.balances, SDAI_ARRAY_INDEX)
    IN  IF IsNone(balance) THEN Err("sDAI balance of the pool not found") ELSE
        IF IsNone(checked_add(Unwrap(balance), swap_in.swapRequest.amount))
        THEN Err("sDAI balance of the pool + sDAI swap amount overflow") ELSE
        swap(compute_sdai_eure_from_bpt(
                 state_by_sub_path, sub_trace_address, received, TRUE,
                 [swap_in.balances EXCEPT ![SDAI_ARRAY_INDEX + 1] =
                     Unwrap(checked_add(Unwrap(balance),
                                        swap_in.swapRequest.amount))]))

compute_swap_csv_sdai_to_bpt(state_by_sub_path, sub_trace_address, swap_in, received, block_number, block_timestamp, tx_hash, trace_path) ==
    LET record(eure_from_bpt, swapped) ==
            IF IsNone(swapped)
            THEN Err("The amount of sDAI swapped is less than the amount of sDAI from BPT ownership") ELSE
            Ok(SwapCsv(TRUE, U256_to_string(Unwrap(swapped)),
                       U256_to_string(eure_from_bpt), block_number,
                       block_timestamp, B256_to_string(tx_hash), trace_path))
        swap(from_bpt) ==
            IF ~from_bpt.ok
            THEN Err("Failed to compute the amount of sdai/eure from bpt ownership") ELSE
            record(from_bpt.val[2],
                   checked_sub(swap_in.swapRequest.amount, from_bpt.val[1]))
        balance == Get(swap_in.balances, SDAI_ARRAY_INDEX)
    IN  IF IsNone(balance) THEN Err("sDAI balance of the pool not found") ELSE
        IF IsNone(checked_add(Unwrap(balance), swap_in.swapRequest.amount))
        THEN Err("sDAI balance of the pool + sDAI swap amount overflow") ELSE
        swap(compute_sdai_eure_from_bpt(state_by_sub_path, sub_trace_address,
                                        received, TRUE, swap_in.balances))

compute_swap_csv_eure_to_bpt(state_by_sub_path, sub_trace_address, swap_in, received, block_number, block_timestamp, tx_hash, trace_path) ==
    LET record(sdai_from_bpt, swapped) ==
            IF IsNone(swapped)
            THEN Err("The amount of EURe swapped is less than the amount of EURe from BPT ownership") ELSE
            Ok(SwapCsv(FALSE, U256_to_string(sdai_from_bpt),
                       U256_to_string(Unwrap(swapped)), block_number,
                       block_timestamp, B256_to_string(tx_hash), trace_path))
        swap(from_bpt) ==
            IF ~from_bpt.ok
            THEN Err("Failed to compute the amount of sdai/eure from bpt ownership") ELSE
            record(from_bpt.val[1],
                   checked_sub(swap_in.swapRequest.amount, from_bpt.val[2]))
        balance == Get(swap_in.balances, EURE_ARRAY_INDEX)
    IN  IF IsNone(balance) THEN Err("EURe balance of the pool not found") ELSE
        IF IsNone(checked_add(Unwrap(balance), swap_in.swapRequest.amount))
        THEN Err("EURe balance of the pool + EURe swap amount overflow") ELSE
        swap(compute_sdai_eure_from_bpt(state_by_sub_path, sub_trace_address,
                                        received, TRUE, swap_in.balances))

\* What a call of SwapFetcher::process_on_swap_trace ends with: a returned
\* Result<Option<SwapCsv>>, or a panic
Returned(r) == [panic |-> FALSE, res |-> r]
Panicked == [panic |-> TRUE, res |-> Err("panic")]

\* lines 43-53: None when the input does not decode, an error when the trace
\* has no result or the output does not decode.  decoded_in is the outcome
\* of onSwapCall::abi_decode on the input, result the trace result with the
\* outcome of abi_decode_returns on its output
OnSwapDecoded(decoded_in, result) ==
    IF IsNone(decoded_in) THEN Ok(None) ELSE
    IF IsNone(result) THEN Err("onSwap trace didn't have result") ELSE
    IF IsNone(Unwrap(result).decoded_out) THEN Err("abi_decode_returns") ELSE
    Ok(Some(<<Unwrap(decoded_in), Unwrap(Unwrap(result).decoded_out)>>))

\* lines 59-146, once input and output are decoded and the block timestamp
\* is known
OnSwapReconstruct(swap_in, swap_out, block_timestamp, tx_hash, trace_path, block_number, trace_address, tx_vm_trace) ==
    LET tokenIn == swap_in.swapRequest.tokenIn
        tokenOut == swap_in.swapRequest.tokenOut
        lift(r) == IF r.ok THEN Returned(Ok(Some(r.val))) ELSE Returned(r)
        shares(sub_trace_address, state_by_sub_path) ==
            CASE tokenIn = BALANCER_SDAI_EURE_POOL_ADDRESS
                 /\ tokenOut = EURE_ADDRESS ->
                    lift(compute_swap_csv_bpt_to_eure(
                        state_by_sub_path, sub_trace_address, swap_in, swap_out,
                        block_number, block_timestamp, tx_hash, trace_path))
              [] tokenIn = BALANCER_SDAI_EURE_POOL_ADDRESS
                 /\ tokenOut = SDAI_ADDRESS ->
                    lift(compute_swap_csv_bpt_to_sdai(
                        state_by_sub_path, sub_trace_address, swap_in, swap_out,
                        block_number, block_timestamp, tx_hash, trace_path))
              [] tokenIn = EURE_ADDRESS
                 /\ tokenOut = BALANCER_SDAI_EURE_POOL_ADDRESS ->
                    lift(compute_swap_csv_eure_to_bpt(
                        state_by_sub_path, sub_trace_address, swap_in, swap_out,
                        block_number, block_timestamp, tx_hash, trace_path))
              [] tokenIn = SDAI_ADDRESS
                 /\ tokenOut = BALANCER_SDAI_EURE_POOL_ADDRESS ->
                    lift(compute_swap_csv_sdai_to_bpt(
                        state_by_sub_path, sub_trace_address, swap_in, swap_out,
                        block_number, block_timestamp, tx_hash, trace_path))
              [] tokenIn = tokenOut
                 /\ tokenIn \in {SDAI_ADDRESS, EURE_ADDRESS,
                                 BALANCER_SDAI_EURE_POOL_ADDRESS} ->
                    Returned(Err("onSwap same in and out"))
              [] OTHER -> Returned(Err("onSwap unknown token"))
        indexed(sub_trace_address, vm_trace) ==
            IF ~vm_trace.ok THEN Returned(vm_trace)
            ELSE shares(sub_trace_address, StateBySubPath_new(vm_trace.val))
    IN
    IF tokenIn = SDAI_ADDRESS /\ tokenOut = EURE_ADDRESS
    THEN Returned(Ok(Some(compute_swap_csv_sdai_to_eure(
             swap_in, swap_out, block_number, block_timestamp, tx_hash,
             trace_path))))
    ELSE IF tokenIn = EURE_ADDRESS /\ tokenOut = SDAI_ADDRESS
    THEN Returned(Ok(Some(compute_swap_csv_eure_to_sdai(
             swap_in, swap_out, block_number, block_timestamp, tx_hash,
             trace_path))))
    ELSE IF SplitLastPanics(trace_address) THEN Panicked
    ELSE indexed(SplitLastTail(trace_address),
                 fetch_sub_vm_trace(tx_vm_trace, SplitLastHead(trace_address)))

(***************************************************************************)
(* download/block_timestamp.rs                                             *)
(***************************************************************************)
\* HashMap::insert
MapInsert(map, k, v) ==
    [x \in (DOMAIN map) \cup {k} |-> IF x = k THEN v ELSE map[x]]

BlockTimestampFetcher(by_number, by_timestamp, csv) ==
    [block_timestamp_by_number |-> by_number,
     block_number_by_timestamp |-> by_timestamp,
     csv |-> csv]

\* BlockTimestampFetcher::fetch_timestamp; node_timestamp is the timestamp
\* of the block header the node delivers.  Returns the fetcher and Ok(ts)
fetch_timestamp(self, block_number, node_timestamp) ==
    IF block_number \in DOMAIN self.block_timestamp_by_number
    THEN [self |-> self,
          res |-> Ok(self.block_timestamp_by_number[block_number])]
    ELSE [self |-> BlockTimestampFetcher(
                       MapInsert(self.block_timestamp_by_number, block_number,
                                 node_timestamp),
                       MapInsert(self.block_number_by_timestamp, node_timestamp,
                                 block_number),
                       Append(self.csv, [number |-> block_number,
                                         timestamp |-> node_timestamp])),
          res |-> Ok(node_timestamp)]

\* TryIntoBlockTimestamp::try_into_block_timestamp
try_into_block_timestamp(block_number, block_timestamp_fetcher, node_timestamp) ==
    LET wrapped(fetched) ==
            [self |-> fetched.self,
             res |-> wrap_err(fetched.res, "Failed to fetch block timestamp")]
    IN  wrapped(fetch_timestamp(block_timestamp_fetcher, block_number,
                                node_timestamp))

\* The arguments of SwapFetcher::process_on_swap_trace and what the node
\* holds for the transaction: decoded_in is the outcome of decoding
\* call_action.input, result the trace result (with the outcome of decoding
\* its output), tx_vm_trace the VM trace of the transaction
OnSwapCallArgs(decoded_in, result, tx_hash, trace_path, block_number, trace_address, tx_vm_trace) ==
    [decoded_in |-> decoded_in, result |-> result, tx_hash |-> tx_hash,
     trace_path |-> trace_path, block_number |-> block_number,
     trace_address |-> trace_address, tx_vm_trace |-> tx_vm_trace]

TraceResult(decoded_out) == [decoded_out |-> decoded_out]

(***************************************************************************)
(* download/swap.rs and download/swap/on_*.rs: classification and          *)
(* dispatch of one call-trace entry                                        *)
(***************************************************************************)
\* swap.rs Swap
Swap(is_buy_eure, sdai_amount, eure_amount) ==
    [is_buy_eure |-> is_buy_eure, sdai_amount |-> sdai_amount,
     eure_amount |-> eure_amount]

\* What the ABI decoders give for an entry and one signature: the decoded
\* input (None when call_action.input does not decode) and the decoded
\* output (None when the output bytes do not decode)
Decoding(input, output) == [input |-> input, output |-> output]
NotDecoded == Decoding(None, None)

\* decode_in_out_on_swap(call_action, trace_output)
decode_in_out_on_swap(decoding) ==
    IF IsNone(decoding.input) THEN Ok(None) ELSE
    IF IsNone(decoding.output) THEN Ok(None) ELSE
    Ok(Some(<<Unwrap(decoding.input), Unwrap(decoding.output)>>))

\* decode_in_out_on_join_pool(call_action, trace_output)
decode_in_out_on_join_pool(decoding) ==
    IF IsNone(decoding.input) THEN Ok(None) ELSE
    IF IsNone(decoding.output) THEN Ok(None) ELSE
    Ok(Some(<<Unwrap(decoding.input), Unwrap(decoding.output)>>))

\* decode_in_out_on_exit_pool(call_action, trace_output)
decode_in_out_on_exit_pool(decoding) ==
    IF IsNone(decoding.input) THEN Ok(None) ELSE
    IF IsNone(decoding.output) THEN Ok(None) ELSE
    Ok(Some(<<Unwrap(decoding.input), Unwrap(decoding.output)>>))

\* process_on_swap_trace(state_by_sub_path, sub_trace_address, swap_in,
\* swap_out): the branches of on_swap.rs on the pair of tokens, giving the
\* direction and the two amounts
process_on_swap_trace(state_by_sub_path, sub_trace_address, swap_in, swap_out) ==
    LET tokenIn == swap_in.swapRequest.tokenIn
        tokenOut == swap_in.swapRequest.tokenOut
        amounts(csv) == Swap(csv.is_buy_eure, csv.sdai_amount, csv.eure_amount)
        lift(r) == IF r.ok THEN Ok(Some(amounts(r.val))) ELSE r
    IN
    CASE tokenIn = SDAI_ADDRESS /\ tokenOut = EURE_ADDRESS ->
            Ok(Some(amounts(compute_swap_csv_sdai_to_eure(
                swap_in, swap_out, 0, 0, << >>, << >>))))
      [] tokenIn = EURE_ADDRESS /\ tokenOut = SDAI_ADDRESS ->
            Ok(Some(amounts(compute_swap_csv_eure_to_sdai(
                swap_in, swap_out, 0, 0, << >>, << >>))))
      [] tokenIn = BALANCER_SDAI_EURE_POOL_ADDRESS /\ tokenOut = EURE_ADDRESS ->
            lift(compute_swap_csv_bpt_to_eure(
                state_by_sub_path, sub_trace_address, swap_in, swap_out,
                0, 0, << >>, << >>))
      [] tokenIn = BALANCER_SDAI_EURE_POOL_ADDRESS /\ tokenOut = SDAI_ADDRESS ->
            lift(compute_swap_csv_bpt_to_sdai(
                state_by_sub_path, sub_trace_address, swap_in, swap_out,
                0, 0, << >>, << >>))
      [] tokenIn = EURE_ADDRESS /\ tokenOut = BALANCER_SDAI_EURE_POOL_ADDRESS ->
            lift(compute_swap_csv_eure_to_bpt(
                state_by_sub_path, sub_trace_address, swap_in, swap_out,
                0, 0, << >>, << >>))
      [] tokenIn = SDAI_ADDRESS /\ tokenOut = BALANCER_SDAI_EURE_POOL_ADDRESS ->
            lift(compute_swap_csv_sdai_to_bpt(
                state_by_sub_path, sub_trace_address, swap_in, swap_out,
                0, 0, << >>, << >>))
      [] tokenIn = tokenOut
         /\ tokenIn \in {SDAI_ADDRESS, EURE_ADDRESS,
                         BALANCER_SDAI_EURE_POOL_ADDRESS} ->
            Err("onSwap same in and out")
      [] OTHER -> Err("onSwap unknown token")

\* userData is the sequence of its 32-byte words; userData.get(0..32) is
\* the first word and the kind is its last byte
KindByte(userData) ==
    IF userData = << >> THEN None
    ELSE Some(ShortDivFrom(userData[1], 256, Len(userData[1]), 0).r)

\* userData.get(32 * i .. 32 * (i + 1)) as a U256: the word i of userData
UserDataWord(userData, i) == Get(userData, i)

\* keccak256(B256::left_padding_from(address) ++ B256::ZERO): the slot of
\* the share balance of an address; the hash is a word per address, apart
\* from the fixed slots
balance_key(address) == BigAdd(BigMul(TWO128, u256(7)), u256(address))

\* onJoinPoolCall: the fields the reconstruction reads
onJoinPoolCall(recipient, balances, userData) ==
    [recipient |-> recipient, balances |-> balances, userData |-> userData]
\* onExitPoolCall: the fields the reconstruction reads
onExitPoolCall(sender, balances, userData) ==
    [sender |-> sender, balances |-> balances, userData |-> userData]

\* a variant whose 'buy EURe' arm clamps the sDAI amount at zero
JoinSwap_clamped(sdai_sent, eure_sent, from_bpt) ==
    IF ~from_bpt.ok
    THEN Err("Failed to compute the amount of sdai/eure from bpt ownership")
    ELSE
    IF BigLt(from_bpt.val[1], sdai_sent) /\ BigLt(from_bpt.val[2], eure_sent)
    THEN Ok(None) ELSE
    CASE BigCmp(from_bpt.val[2], eure_sent) = 0 -> Ok(None)
      [] BigCmp(from_bpt.val[2], eure_sent) = 1 ->
            IF IsNone(checked_sub(sdai_sent, from_bpt.val[1]))
            THEN Ok(Some(Swap(TRUE, U256_to_string(u256(0)),
                     U256_to_string(Unwrap(checked_sub(from_bpt.val[2],
                                                       eure_sent))))))
            ELSE
            Ok(Some(Swap(TRUE,
                U256_to_string(Unwrap(checked_sub(sdai_sent, from_bpt.val[1]))),
                U256_to_string(Unwrap(checked_sub(from_bpt.val[2], eure_sent))))))
      [] BigCmp(from_bpt.val[2], eure_sent) = -1 ->
            IF IsNone(checked_sub(from_bpt.val[1], sdai_sent))
            THEN Err("Sell EURe but our sDAI amount had decrease") ELSE
            Ok(Some(Swap(FALSE,
                U256_to_string(Unwrap(checked_sub(from_bpt.val[1], sdai_sent))),
                U256_to_string(Unwrap(checked_sub(eure_sent, from_bpt.val[2]))))))

\* compute_join_pool_exact_asset_to_bpt, lines 130-171
JoinSwap(sdai_sent, eure_sent, from_bpt) ==
    IF ~from_bpt.ok
    THEN Err("Failed to compute the amount of sdai/eure from bpt ownership")
    ELSE
    IF BigLt(from_bpt.val[1], sdai_sent) /\ BigLt(from_bpt.val[2], eure_sent)
    THEN Ok(None) ELSE
    CASE BigCmp(from_bpt.val[2], eure_sent) = 0 -> Ok(None)
      [] BigCmp(from_bpt.val[2], eure_sent) = 1 ->
            IF IsNone(checked_sub(sdai_sent, from_bpt.val[1]))
            THEN Err("Buy EURe but our sDAI amount had increase") ELSE
            Ok(Some(Swap(TRUE,
                U256_to_string(Unwrap(checked_sub(sdai_sent, from_bpt.val[1]))),
                U256_to_string(Unwrap(checked_sub(from_bpt.val[2], eure_sent))))))
      [] BigCmp(from_bpt.val[2], eure_sent) = -1 ->
            IF IsNone(checked_sub(from_bpt.val[1], sdai_sent))
            THEN Err("Sell EURe but our sDAI amount had decrease") ELSE
            Ok(Some(Swap(FALSE,
                U256_to_string(Unwrap(checked_sub(from_bpt.val[1], sdai_sent))),
                U256_to_string(Unwrap(checked_sub(eure_sent, from_bpt.val[2]))))))

\* compute_join_pool_exact_asset_to_bpt, lines 109-128
JoinShares(state_by_sub_path, sub_trace_address, sdai_sent, eure_sent, pool_balances, bpt_owned_before, bpt_owned_after) ==
    IF IsNone(bpt_owned_before) THEN Err("BPT owned before not found") ELSE
    IF IsNone(bpt_owned_after) THEN Err("BPT owned after not found") ELSE
    IF IsNone(checked_sub(Unwrap(bpt_owned_after), Unwrap(bpt_owned_before)))
    THEN Err("BPT owned decreased after a onJoinPool") ELSE
    JoinSwap(sdai_sent, eure_sent,
             compute_sdai_eure_from_bpt(
                 state_by_sub_path, sub_trace_address,
                 Unwrap(checked_sub(Unwrap(bpt_owned_after),
                                    Unwrap(bpt_owned_before))),
                 TRUE, pool_balances))

\* compute_join_pool_exact_asset_to_bpt, lines 83-102: the pool balances
\* handed to the pro-rata computation
JoinPoolBalances(join_pool_in, join_pool_out) ==
    IF IsNone(Get(join_pool_out, SDAI_ARRAY_INDEX))
    THEN Err("sDAI amount sent to the pool not found") ELSE
    IF IsNone(Get(join_pool_out, EURE_ARRAY_INDEX))
    THEN Err("EURe amount sent to the pool not found") ELSE
    IF IsNone(Get(join_pool_in.balances, SDAI_ARRAY_INDEX))
    THEN Err("sDAI not found in pool balances") ELSE
    IF IsNone(checked_add(join_pool_in.balances[1], join_pool_out[1]))
    THEN Err("Failed to add sDAI sent to the pool") ELSE
    IF IsNone(Get(join_pool_in.balances, EURE_ARRAY_INDEX))
    THEN Err("EURe not found in pool balances") ELSE
    IF IsNone(checked_add(join_pool_in.balances[2], join_pool_out[1]))
    THEN Err("Failed to add EURe sent to the pool") ELSE
    Ok(<<Unwrap(checked_add(join_pool_in.balances[1], join_pool_out[1])),
         Unwrap(checked_add(join_pool_in.balances[2], join_pool_out[1]))>>)

\* on_join_pool.rs compute_join_pool_exact_asset_to_bpt
compute_join_pool_exact_asset_to_bpt(state_by_sub_path, sub_trace_address, join_pool_in, join_pool_out) ==
    IF ~JoinPoolBalances(join_pool_in, join_pool_out).ok
    THEN JoinPoolBalances(join_pool_in, join_pool_out) ELSE
    JoinShares(state_by_sub_path, sub_trace_address,
               join_pool_out[1], join_pool_out[2],
               JoinPoolBalances(join_pool_in, join_pool_out).val,
               get_load_value(state_by_sub_path.load_map,
                              state_by_sub_path.store_map,
                              balance_key(join_pool_in.recipient),
                              sub_trace_address, PositionFirst),
               get_store_value(state_by_sub_path.load_map,
                               state_by_sub_path.store_map,
                               balance_key(join_pool_in.recipient),
                               sub_trace_address, PositionFirst))

\* on_join_pool.rs process_on_join_pool_trace
process_on_join_pool_trace(state_by_sub_path, sub_trace_address, join_pool_in, join_pool_out) ==
    IF IsNone(KindByte(join_pool_in.userData))
    THEN Err("JoinKind not found in userData") ELSE
    CASE Unwrap(KindByte(join_pool_in.userData)) = 0 -> Ok(None)
      [] Unwrap(KindByte(join_pool_in.userData)) = 1 ->
            compute_join_pool_exact_asset_to_bpt(
                state_by_sub_path, sub_trace_address, join_pool_in,
                join_pool_out)
      [] Unwrap(KindByte(join_pool_in.userData)) = 2 ->
            Err("TokenInForExactBptOut not implemented yet")
      [] Unwrap(KindByte(join_pool_in.userData)) = 3 ->
            Err("AllTokensInForExactBptOut not implemented yet")
      [] OTHER -> Err("Unknown join kind")

\* compute_exit_pool_exact_bpt_to_one_asset, lines 94-138
ExitOneAsset(sdai_received, eure_received, from_bpt) ==
    IF ~from_bpt.ok
    THEN Err("Failed to compute the amount of sdai/eure from bpt ownership")
    ELSE
    IF IsNone(sdai_received)
    THEN Err("sDAI output not found in on_exit_pool result") ELSE
    IF IsNone(eure_received)
    THEN Err("EURe output not found in on_exit_pool result") ELSE
    CASE BigIsZero(Unwrap(eure_received)) ->
            IF IsNone(checked_sub(Unwrap(sdai_received), from_bpt.val[1]))
            THEN Err("The amount of sDAI received is less than the amount of sDAI from BPT ownership")
            ELSE
            Ok(Some(Swap(FALSE,
                U256_to_string(Unwrap(checked_sub(Unwrap(sdai_received),
                                                  from_bpt.val[1]))),
                U256_to_string(from_bpt.val[2]))))
      [] ~BigIsZero(Unwrap(eure_received))
         /\ BigIsZero(Unwrap(sdai_received)) ->
            IF IsNone(checked_sub(Unwrap(eure_received), from_bpt.val[2]))
            THEN Err("The amount of EURe received is less than the amount of EURe from BPT ownership")
            ELSE
            Ok(Some(Swap(TRUE,
                U256_to_string(from_bpt.val[1]),
                U256_to_string(Unwrap(checked_sub(Unwrap(eure_received),
                                                  from_bpt.val[2]))))))
      [] OTHER -> Err("Unknown asset received")

\* on_exit_pool.rs compute_exit_pool_exact_bpt_to_one_asset
compute_exit_pool_exact_bpt_to_one_asset(state_by_sub_path, sub_trace_address, exit_pool_in, exit_pool_out) ==
    IF IsNone(UserDataWord(exit_pool_in.userData, 1))
    THEN Err("bpt amount sent not found in userData") ELSE
    ExitOneAsset(Get(exit_pool_out, SDAI_ARRAY_INDEX),
                 Get(exit_pool_out, EURE_ARRAY_INDEX),
                 compute_sdai_eure_from_bpt(
                     state_by_sub_path, sub_trace_address,
                     Unwrap(UserDataWord(exit_pool_in.userData, 1)),
                     FALSE, exit_pool_in.balances))

\* ExitExactSwap whose third arm asks for more sDAI than the pro-rata value
ExitExactSwap_strict(sdai_received, eure_received, sdai_from_bpt, eure_from_bpt) ==
    CASE BigIsZero(eure_received) ->
            IF IsNone(checked_sub(sdai_received, sdai_from_bpt))
            THEN Err("BPT => sDAI, but sDAI received is less then the amount from BPT ownership")
            ELSE
            Ok(Some(Swap(FALSE,
                U256_to_string(Unwrap(checked_sub(sdai_received, sdai_from_bpt))),
                U256_to_string(eure_from_bpt))))
      [] ~BigIsZero(eure_received) /\ BigIsZero(sdai_received) ->
            IF IsNone(checked_sub(eure_received, eure_from_bpt))
            THEN Err("BPT => EURe, but EURe received is less then the amount from BPT ownership")
            ELSE
            Ok(Some(Swap(TRUE,
                U256_to_string(sdai_from_bpt),
                U256_to_string(Unwrap(checked_sub(eure_received, eure_from_bpt))))))
      [] ~BigIsZero(eure_received) /\ ~BigIsZero(sdai_received)
         /\ BigLt(sdai_from_bpt, sdai_received) ->
            IF IsNone(checked_sub(sdai_received, sdai_from_bpt))
            THEN Err("BPT => +sDAI| -EURe, but sDAI received is less then the amount from BPT ownership")
            ELSE
            IF IsNone(checked_sub(eure_from_bpt, eure_received))
            THEN Err("BPT => +sDAI| -EURe, but EURe received is bigger then the amount from BPT ownership")
            ELSE
            Ok(Some(Swap(FALSE,
                U256_to_string(Unwrap(checked_sub(sdai_received, sdai_from_bpt))),
                U256_to_string(Unwrap(checked_sub(eure_from_bpt, eure_received))))))
      [] ~BigIsZero(eure_received) /\ ~BigIsZero(sdai_received)
         /\ BigLt(sdai_received, sdai_from_bpt) ->
            IF IsNone(checked_sub(sdai_from_bpt, sdai_received))
            THEN Err("BPT => -sDAI| +EURe, but sDAI received is bigger then the amount from BPT ownership")
            ELSE
            IF IsNone(checked_sub(eure_received, eure_from_bpt))
            THEN Err("BPT => -sDAI| +EURe, but EURe received is less then the amount from BPT ownership")
            ELSE
            Ok(Some(Swap(TRUE,
                U256_to_string(Unwrap(checked_sub(sdai_from_bpt, sdai_received))),
                U256_to_string(Unwrap(checked_sub(eure_received, eure_from_bpt))))))
      [] OTHER -> Err("Unknown assets received")

\* compute_exit_pool_bpt_to_exact_assets, lines 189-241
ExitExactSwap(sdai_received, eure_received, sdai_from_bpt, eure_from_bpt) ==
    CASE BigIsZero(eure_received) ->
            IF IsNone(checked_sub(sdai_received, sdai_from_bpt))
            THEN Err("BPT => sDAI, but sDAI received is less then the amount from BPT ownership")
            ELSE
            Ok(Some(Swap(FALSE,
                U256_to_string(Unwrap(checked_sub(sdai_received, sdai_from_bpt))),
                U256_to_string(eure_from_bpt))))
      [] ~BigIsZero(eure_received) /\ BigIsZero(sdai_received) ->
            IF IsNone(checked_sub(eure_received, eure_from_bpt))
            THEN Err("BPT => EURe, but EURe received is less then the amount from BPT ownership")
            ELSE
            Ok(Some(Swap(TRUE,
                U256_to_string(sdai_from_bpt),
                U256_to_string(Unwrap(checked_sub(eure_received, eure_from_bpt))))))
      [] ~BigIsZero(eure_received) /\ ~BigIsZero(sdai_received)
         /\ BigLe(sdai_from_bpt, sdai_received) ->
            IF IsNone(checked_sub(sdai_received, sdai_from_bpt))
            THEN Err("BPT => +sDAI| -EURe, but sDAI received is less then the amount from BPT ownership")
            ELSE
            IF IsNone(checked_sub(eure_from_bpt, eure_received))
            THEN Err("BPT => +sDAI| -EURe, but EURe received is bigger then the amount from BPT ownership")
            ELSE
            Ok(Some(Swap(FALSE,
                U256_to_string(Unwrap(checked_sub(sdai_received, sdai_from_bpt))),
                U256_to_string(Unwrap(checked_sub(eure_from_bpt, eure_received))))))
      [] ~BigIsZero(eure_received) /\ ~BigIsZero(sdai_received)
         /\ BigLt(sdai_received, sdai_from_bpt) ->
            IF IsNone(checked_sub(sdai_from_bpt, sdai_received))
            THEN Err("BPT => -sDAI| +EURe, but sDAI received is bigger then the amount from BPT ownership")
            ELSE
            IF IsNone(checked_sub(eure_received, eure_from_bpt))
            THEN Err("BPT => -sDAI| +EURe, but EURe received is less then the amount from BPT ownership")
            ELSE
            Ok(Some(Swap(TRUE,
                U256_to_string(Unwrap(checked_sub(sdai_from_bpt, sdai_received))),
                U256_to_string(Unwrap(checked_sub(eure_received, eure_from_bpt))))))
      [] OTHER -> Err("Unknown assets received")

\* compute_exit_pool_bpt_to_exact_assets, lines 165-187
ExitExactAmounts(userData, from_bpt) ==
    IF ~from_bpt.ok
    THEN Err("Failed to compute the amount of sdai/eure from bpt ownership")
    ELSE
    IF IsNone(UserDataWord(userData, 4))
    THEN Err("sdai received not found in userData") ELSE
    IF IsNone(UserDataWord(userData, 5))
    THEN Err("eure received not found in userData") ELSE
    ExitExactSwap(Unwrap(UserDataWord(userData, 4)),
                  Unwrap(UserDataWord(userData, 5)),
                  from_bpt.val[1], from_bpt.val[2])

\* compute_exit_pool_bpt_to_exact_assets, lines 153-172
ExitShares(state_by_sub_path, sub_trace_address, exit_pool_in, bpt_owned_before, bpt_owned_after) ==
    IF IsNone(bpt_owned_before) THEN Err("BPT owned before not found") ELSE
    IF IsNone(bpt_owned_after) THEN Err("BPT owned after not found") ELSE
    IF IsNone(checked_sub(Unwrap(bpt_owned_before), Unwrap(bpt_owned_after)))
    THEN Err("BPT owned increased after a onExitPool") ELSE
    ExitExactAmounts(exit_pool_in.userData,
                     compute_sdai_eure_from_bpt(
                         state_by_sub_path, sub_trace_address,
                         Unwrap(checked_sub(Unwrap(bpt_owned_before),
                                            Unwrap(bpt_owned_after))),
                         FALSE, exit_pool_in.balances))

\* on_exit_pool.rs compute_exit_pool_bpt_to_exact_assets
compute_exit_pool_bpt_to_exact_assets(state_by_sub_path, sub_trace_address, exit_pool_in, exit_pool_out) ==
    ExitShares(state_by_sub_path, sub_trace_address, exit_pool_in,
               get_load_value(state_by_sub_path.load_map,
                              state_by_sub_path.store_map,
                              balance_key(exit_pool_in.sender),
                              sub_trace_address, PositionFirst),
               get_store_value(state_by_sub_path.load_map,
                               state_by_sub_path.store_map,
                               balance_key(exit_pool_in.sender),
                               sub_trace_address, PositionFirst))

\* on_exit_pool.rs process_on_exit_pool_trace
process_on_exit_pool_trace(state_by_sub_path, sub_trace_address, exit_pool_in, exit_pool_out) ==
    IF IsNone(KindByte(exit_pool_in.userData))
    THEN Err("JoinKind not found in userData") ELSE
    CASE Unwrap(KindByte(exit_pool_in.userData)) = 0 ->
            compute_exit_pool_exact_bpt_to_one_asset(
                state_by_sub_path, sub_trace_address, exit_pool_in,
                exit_pool_out)
      [] Unwrap(KindByte(exit_pool_in.userData)) = 1 ->
            compute_exit_pool_bpt_to_exact_assets(
                state_by_sub_path, sub_trace_address, exit_pool_in,
                exit_pool_out)
      [] Unwrap(KindByte(exit_pool_in.userData)) = 2 -> Ok(None)
      [] OTHER -> Err("Unknown exit kind")

\* One entry of the call-trace list with what the node holds for it:
\* trace.error.is_some(), transaction_hash, trace_address, block_number, the
\* receipt status (None: no receipt), action.as_call().is_some(),
\* trace.result.is_some(), the three decodings of its input and output, and
\* the VM trace of its transaction
LocalizedTransactionTrace(error, transaction_hash, trace_address, block_number, receipt_status, is_call, has_result, on_swap, on_join_pool, on_exit_pool, tx_vm_trace) ==
    [error |-> error, transaction_hash |-> transaction_hash,
     trace_address |-> trace_address, block_number |-> block_number,
     receipt_status |-> receipt_status, is_call |-> is_call,
     has_result |-> has_result, on_swap |-> on_swap,
     on_join_pool |-> on_join_pool, on_exit_pool |-> on_exit_pool,
     tx_vm_trace |-> tx_vm_trace]

NoEntry ==
    LocalizedTransactionTrace(TRUE, None, << >>, None, None, FALSE, FALSE,
                              NotDecoded, NotDecoded, NotDecoded,
                              VmTrace(<< >>, << >>))

\* How the processing of an entry ended.  status/error: how the run of
\* fetch_swap_csv stands after it; decoded: the three decoders were called;
\* kinds: the signatures that decoded; handed: the reconstructors called;
\* record: the SwapCsv inserted; fetcher: the BlockTimestampFetcher after
\* it; dumps: the diagnostic files written
EntryEnd(status, error, decoded, kinds, handed, record, fetcher, dumps) ==
    [status |-> status, error |-> error, decoded |-> decoded, kinds |-> kinds,
     handed |-> handed, record |-> record, fetcher |-> fetcher, dumps |-> dumps]

NoStep == [decoded |-> FALSE, kinds |-> {}, handed |-> {}, record |-> None]

\* swap.rs lines 231-247: the row of data/swaps.csv
SwapCsvRow(swap, block_number, block_timestamp, tx_hash, trace_path, sdai_price_cache_info, eure_price_cache_info) ==
    [is_buy_eure |-> swap.is_buy_eure,
     sdai_amount |-> swap.sdai_amount,
     eure_amount |-> swap.eure_amount,
     block_number |-> block_number,
     block_timestamp |-> block_timestamp,
     tx_hash |-> B256_to_string(tx_hash),
     trace_path |-> trace_path,
     sdai_last_update |-> sdai_price_cache_info.last_update,
     eure_last_update |-> eure_price_cache_info.last_update,
     sdai_duration |-> sdai_price_cache_info.duration,
     eure_duration |-> eure_price_cache_info.duration,
     sdai_price_old |-> sdai_price_cache_info.price_old,
     eure_price_old |-> eure_price_cache_info.price_old,
     sdai_price_new |-> sdai_price_cache_info.price_new,
     eure_price_new |-> eure_price_cache_info.price_new]

\* log_processing_failed that writes the full trace only
log_processing_failed_full_only(tx_hash) ==
    <<[prepend_name |-> "full", tx_hash |-> B256_to_string(tx_hash)]>>

\* SwapFetcher::log_processing_failed: the two files written
log_processing_failed(tx_hash) ==
    <<[prepend_name |-> "full", tx_hash |-> B256_to_string(tx_hash)],
      [prepend_name |-> "sub", tx_hash |-> B256_to_string(tx_hash)]>>

\* fetch_swap_csv, lines 187-265: the outcome of the reconstructor the entry
\* was handed to; a record is inserted and pushed, an error ends the run
\* after the diagnostic dump
FetchInsert(fetcher, tx_hash, trace_path, block_number, block_timestamp, kinds, price_cache_info, kind, failed, swap_maybe) ==
    IF ~swap_maybe.ok
    THEN EntryEnd("err", failed, TRUE, kinds, {kind}, None, fetcher,
                  log_processing_failed(tx_hash)) ELSE
    IF IsNone(swap_maybe.val)
    THEN EntryEnd("running", "", TRUE, kinds, {kind}, None, fetcher, << >>) ELSE
    EntryEnd("running", "", TRUE, kinds, {kind},
             Some(SwapCsvRow(Unwrap(swap_maybe.val), block_number,
                             block_timestamp, tx_hash, trace_path,
                             price_cache_info.val[1], price_cache_info.val[2])),
             fetcher, << >>)

\* fetch_swap_csv, lines 184-244: the ? on the price caches, then the match
\* on the three decodings
FetchDispatch(fetcher, tx_hash, trace_path, block_number, block_timestamp, on_swap_maybe, on_join_pool_maybe, on_exit_pool_maybe, kinds, sub_trace_address, state_by_sub_path, price_cache_info) ==
    IF ~price_cache_info.ok
    THEN EntryEnd("err", price_cache_info.err, TRUE, kinds, {}, None, fetcher,
                  << >>) ELSE
    CASE IsSome(on_swap_maybe.val) /\ IsNone(on_join_pool_maybe.val)
         /\ IsNone(on_exit_pool_maybe.val) ->
            FetchInsert(fetcher, tx_hash, trace_path, block_number,
                        block_timestamp, kinds, price_cache_info, "onSwap",
                        "Failed to process onSwap trace",
                        process_on_swap_trace(
                            state_by_sub_path, sub_trace_address,
                            Unwrap(on_swap_maybe.val)[1],
                            Unwrap(on_swap_maybe.val)[2]))
      [] IsNone(on_swap_maybe.val) /\ IsSome(on_join_pool_maybe.val)
         /\ IsNone(on_exit_pool_maybe.val) ->
            FetchInsert(fetcher, tx_hash, trace_path, block_number,
                        block_timestamp, kinds, price_cache_info, "onJoinPool",
                        "Failed to process onJoinPool trace",
                        process_on_join_pool_trace(
                            state_by_sub_path, sub_trace_address,
                            Unwrap(on_join_pool_maybe.val)[1],
                            Unwrap(on_join_pool_maybe.val)[2]))
      [] IsNone(on_swap_maybe.val) /\ IsNone(on_join_pool_maybe.val)
         /\ IsSome(on_exit_pool_maybe.val) ->
            FetchInsert(fetcher, tx_hash, trace_path, block_number,
                        block_timestamp, kinds, price_cache_info, "onExitPool",
                        "Failed to process onExitPool trace",
                        process_on_exit_pool_trace(
                            state_by_sub_path, sub_trace_address,
                            Unwrap(on_exit_pool_maybe.val)[1],
                            Unwrap(on_exit_pool_maybe.val)[2]))
      [] OTHER ->
            EntryEnd("err",
                     "onSwap(), onJoinPool() and onExitPool() are mutually exclusive",
                     TRUE, kinds, {}, None, fetcher, << >>)

\* fetch_swap_csv, lines 184-185: the price caches read from the index
FetchPriceCache(fetcher, tx_hash, trace_path, block_number, block_timestamp, on_swap_maybe, on_join_pool_maybe, on_exit_pool_maybe, kinds, sub_trace_address, state_by_sub_path) ==
    FetchDispatch(fetcher, tx_hash, trace_path, block_number, block_timestamp,
                  on_swap_maybe, on_join_pool_maybe, on_exit_pool_maybe, kinds,
                  sub_trace_address, state_by_sub_path,
                  extract_price_cache_info_sdai_eure(state_by_sub_path,
                                                     sub_trace_address))

\* SwapFetcher::fetch_state_by_sub_path: the ? on the resolved trace, then
\* the index built on it
FetchStateBySubPath(fetcher, tx_hash, trace_path, block_number, block_timestamp, on_swap_maybe, on_join_pool_maybe, on_exit_pool_maybe, kinds, sub_trace_address, vm_trace) ==
    IF ~vm_trace.ok
    THEN EntryEnd("err", vm_trace.err, TRUE, kinds, {}, None, fetcher, << >>)
    ELSE FetchPriceCache(fetcher, tx_hash, trace_path, block_number,
                         block_timestamp, on_swap_maybe, on_join_pool_maybe,
                         on_exit_pool_maybe, kinds, sub_trace_address,
                         StateBySubPath_new(vm_trace.val))

\* fetch_swap_csv, lines 169-182: an entry none of the decoders accepts is
\* skipped; split_at(len - 1) panics on the empty call path
FetchDecoded(entry, fetcher, tx_hash, trace_path, block_number, block_timestamp, on_swap_maybe, on_join_pool_maybe, on_exit_pool_maybe, kinds) ==
    IF kinds = {}
    THEN EntryEnd("running", "", TRUE, kinds, {}, None, fetcher, << >>) ELSE
    IF SplitLastPanics(entry.trace_address)
    THEN EntryEnd("panic", "", TRUE, kinds, {}, None, fetcher, << >>) ELSE
    FetchStateBySubPath(fetcher, tx_hash, trace_path, block_number,
                        block_timestamp, on_swap_maybe, on_join_pool_maybe,
                        on_exit_pool_maybe, kinds,
                        SplitLastTail(entry.trace_address),
                        fetch_sub_vm_trace(entry.tx_vm_trace,
                                           SplitLastHead(entry.trace_address)))

\* the kinds whose decoder accepted the entry
DecodedKinds(on_swap_maybe, on_join_pool_maybe, on_exit_pool_maybe) ==
    (IF IsSome(on_swap_maybe.val) THEN {"onSwap"} ELSE {})
    \cup (IF IsSome(on_join_pool_maybe.val) THEN {"onJoinPool"} ELSE {})
    \cup (IF IsSome(on_exit_pool_maybe.val) THEN {"onExitPool"} ELSE {})

\* fetch_swap_csv, lines 165-167: the three decoders
FetchClassified(entry, tx_hash, trace_path, block_number, block_timestamp, fetcher) ==
    FetchDecoded(entry, fetcher, tx_hash, trace_path, block_number,
                 block_timestamp,
                 decode_in_out_on_swap(entry.on_swap),
                 decode_in_out_on_join_pool(entry.on_join_pool),
                 decode_in_out_on_exit_pool(entry.on_exit_pool),
                 DecodedKinds(decode_in_out_on_swap(entry.on_swap),
                              decode_in_out_on_join_pool(entry.on_join_pool),
                              decode_in_out_on_exit_pool(entry.on_exit_pool)))

\* a variant without the test on the entries already recorded
FetchTimestamped_no_skip(entry, known, tx_hash, trace_path, block_number, block_timestamp) ==
    IF ~block_timestamp.res.ok
    THEN EntryEnd("err", block_timestamp.res.err, FALSE, {}, {}, None,
                  block_timestamp.self, << >>) ELSE
    IF IsNone(entry.receipt_status)
    THEN EntryEnd("err", "Failed to get receipt by hash {tx_hash}", FALSE, {},
                  {}, None, block_timestamp.self, << >>) ELSE
    IF ~Unwrap(entry.receipt_status) \/ ~entry.is_call \/ ~entry.has_result
    THEN EntryEnd("running", "", FALSE, {}, {}, None, block_timestamp.self,
                  << >>) ELSE
    FetchClassified(entry, tx_hash, trace_path, block_number,
                    block_timestamp.res.val, block_timestamp.self)

\* fetch_swap_csv, lines 135-163: the ? on the timestamp, the entry already
\* recorded, the receipt, the call action and the result
FetchTimestamped(entry, known, tx_hash, trace_path, block_number, block_timestamp) ==
    IF ~block_timestamp.res.ok
    THEN EntryEnd("err", block_timestamp.res.err, FALSE, {}, {}, None,
                  block_timestamp.self, << >>) ELSE
    IF <<B256_to_string(tx_hash), trace_path>> \in known
    THEN EntryEnd("running", "", FALSE, {}, {}, None, block_timestamp.self,
                  << >>) ELSE
    IF IsNone(entry.receipt_status)
    THEN EntryEnd("err", "Failed to get receipt by hash {tx_hash}", FALSE, {},
                  {}, None, block_timestamp.self, << >>) ELSE
    IF ~Unwrap(entry.receipt_status) \/ ~entry.is_call \/ ~entry.has_result
    THEN EntryEnd("running", "", FALSE, {}, {}, None, block_timestamp.self,
                  << >>) ELSE
    FetchClassified(entry, tx_hash, trace_path, block_number,
                    block_timestamp.res.val, block_timestamp.self)

\* fetch_swap_csv, lines 127-137 of the loop body: the entry with an error,
\* the transaction hash, the call path, the block number and its timestamp
FetchEntryEnd(entry, known, fetcher, node_timestamp) ==
    IF entry.error
    THEN EntryEnd("running", "", FALSE, {}, {}, None, fetcher, << >>) ELSE
    IF IsNone(entry.transaction_hash)
    THEN EntryEnd("err", "no tx_hash", FALSE, {}, {}, None, fetcher, << >>) ELSE
    IF IsNone(entry.block_number)
    THEN EntryEnd("err", "Block number is missing", FALSE, {}, {}, None,
                  fetcher, << >>) ELSE
    FetchTimestamped(entry, known, Unwrap(entry.transaction_hash),
                     stringify_vec_usize(entry.trace_address),
                     Unwrap(entry.block_number),
                     try_into_block_timestamp(Unwrap(entry.block_number),
                                              fetcher, node_timestamp))

(***************************************************************************)
(* Bounded sets of traces: every trace whose instructions, nested ones     *)
(* included, number at most a bound.  base is the set of instructions      *)
(* without nested call, call the instruction(s) carrying a nested trace.   *)
(***************************************************************************)
CallInstruction(sub) ==
    VmInstruction(0, Some(VmExecutedOperation(<<u256(1)>>, None)), Some(sub))

RECURSIVE OpsOfSize(_, _, _)
InstructionsOfSize(k, base, code) ==
    IF k = 1
    THEN base \cup {CallInstruction(VmTrace(code, << >>))}
    ELSE {CallInstruction(VmTrace(code, ops)) : ops \in OpsOfSize(k - 1, base, code)}

OpsOfSize(n, base, code) ==
    IF n = 0 THEN {<< >>}
    ELSE UNION {{<<i>> \o rest : i \in InstructionsOfSize(k, base, code),
                                 rest \in OpsOfSize(n - k, base, code)}
                : k \in 1..n}

TracesUpTo(n, base, code) ==
    UNION {{VmTrace(code, ops) : ops \in OpsOfSize(m, base, code)} : m \in 0..n}

RECURSIVE SeqsUpTo(_, _)
SeqsUpTo(S, n) ==
    IF n = 0 THEN {<< >>}
    ELSE LET shorter == SeqsUpTo(S, n - 1)
         IN  shorter \cup {Append(q, x) : q \in shorter, x \in S}

(***************************************************************************)
(* Specification of the resolver: a trace and a call path are drawn, the   *)
(* path is resolved.                                                       *)
(***************************************************************************)
MaxResolverInstructions == 4
MaxPathSegment == 2
MaxPathLen == 2

PlainInstruction == VmInstruction(0, None, None)
PushInstruction(v) ==
    VmInstruction(0, Some(VmExecutedOperation(<<v>>, None)), None)

ResolverBase ==
    {PlainInstruction, PushInstruction(u256(1)), PushInstruction(console_address)}
ResolverTraces == TracesUpTo(MaxResolverInstructions, ResolverBase, << >>)
CallPaths == SeqsUpTo(0..MaxPathSegment, MaxPathLen)

IdleResolver ==
    /\ rsTrace = VmTrace(<< >>, << >>)
    /\ rsPath = << >>
    /\ rsDone = FALSE
    /\ rsRes = Err("")

IdleMath ==
    /\ mathA = u256(0)
    /\ mathB = u256(0)
    /\ mathOp = "none"
    /\ mathRes = Ok(u256(0))

IdleQuery ==
    [fn |-> "none", storage_key |-> << >>, sub_path |-> << >>,
     position |-> PositionFirst]

IdleIndex ==
    /\ ixTrace = VmTrace(<< >>, << >>)
    /\ ixStack = << >>
    /\ ixBuilt = FALSE
    /\ load_map = EmptyMap
    /\ store_map = EmptyMap
    /\ lkQuery = IdleQuery
    /\ lkRes = None

IdleTimestamps ==
    /\ block_timestamp_by_number = EmptyMap
    /\ block_number_by_timestamp = EmptyMap
    /\ blocks_csv = << >>

IdleOnSwap ==
    /\ osCall = OnSwapCallArgs(None, None, << >>, << >>, 0, << >>,
                             VmTrace(<< >>, << >>))
    /\ osDone = FALSE
    /\ osOut = Returned(Ok(None))

IdleFetcher ==
    /\ swap_csv_by_tx_hash_trace_path = EmptyMap
    /\ swaps_csv = << >>
    /\ swap_csv_vec = << >>
    /\ fsStatus = "idle"
    /\ fsError = ""
    /\ fsCount = 0
    /\ fsEntry = NoEntry
    /\ fsStep = NoStep
    /\ fsDumps = << >>

IdlePool ==
    /\ poolCall = [fn |-> "none"]
    /\ poolDone = FALSE
    /\ poolOut = Ok(None)

IdlePriceCache ==
    /\ pcWord = u256(0)
    /\ pcDone = FALSE
    /\ pcOut = Err("")

IdleExceptMath ==
    /\ IdleResolver /\ IdleIndex /\ IdleTimestamps /\ IdleOnSwap /\ IdleFetcher
    /\ IdlePool /\ IdlePriceCache
IdleExceptResolver ==
    /\ IdleMath /\ IdleIndex /\ IdleTimestamps /\ IdleOnSwap /\ IdleFetcher
    /\ IdlePool /\ IdlePriceCache
IdleExceptIndex ==
    /\ IdleMath /\ IdleResolver /\ IdleTimestamps /\ IdleOnSwap /\ IdleFetcher
    /\ IdlePool /\ IdlePriceCache
IdleExceptOnSwap ==
    /\ IdleMath /\ IdleResolver /\ IdleIndex /\ IdleFetcher /\ IdlePool
    /\ IdlePriceCache
IdleExceptFetcher ==
    /\ IdleMath /\ IdleResolver /\ IdleIndex /\ IdleOnSwap /\ IdlePool
    /\ IdlePriceCache
IdleExceptPool ==
    /\ IdleMath /\ IdleResolver /\ IdleIndex /\ IdleTimestamps /\ IdleOnSwap
    /\ IdleFetcher /\ IdlePriceCache
IdleExceptPriceCache ==
    /\ IdleMath /\ IdleResolver /\ IdleIndex /\ IdleTimestamps /\ IdleOnSwap
    /\ IdleFetcher /\ IdlePool

InitResolver ==
    /\ rsTrace \in ResolverTraces
    /\ rsPath \in CallPaths
    /\ rsDone = FALSE
    /\ rsRes = Err("")
    /\ IdleExceptResolver

ExtractSubVmTrace ==
    /\ ~rsDone
    /\ rsDone' = TRUE
    /\ rsRes' = extract_sub_vm_trace(rsTrace, rsPath)
    /\ UNCHANGED <<rsTrace, rsPath, notResolverVars>>

NextResolver == ExtractSubVmTrace

SpecResolver == InitResolver /\ [][NextResolver]_vars

(***************************************************************************)
(* Specification of the pool math: the operands are drawn from the values  *)
(* around the boundaries of the checked operations, one call is applied.   *)
(***************************************************************************)
MaxSmall == 1

ONE == BigPow(u256(10), 18)
\* floor((2^256 - 1) / 10^18): the largest a whose a * 10^18 fits
MaxScalable == BigDiv(U256_MAX, ONE)
U256Inputs ==
    {u256(k) : k \in 0..MaxSmall}
    \cup {BigMul(ONE, u256(k)) : k \in 1..MaxSmall}
    \cup {BigSub(U256_MAX, u256(k)) : k \in 0..MaxSmall}
    \cup {BigSub(MaxScalable, u256(k)) : k \in 0..MaxSmall}
    \cup {BigAdd(MaxScalable, u256(k)) : k \in 1..MaxSmall}
    \cup {BigSub(TWO128, u256(k)) : k \in 0..MaxSmall}
    \cup {BigAdd(TWO128, u256(k)) : k \in 1..MaxSmall}

InitMath ==
    /\ mathA \in U256Inputs
    /\ mathB \in U256Inputs
    /\ mathOp = "none"
    /\ mathRes = Ok(u256(0))
    /\ IdleExceptMath

DivUpCall ==
    /\ mathOp = "none"
    /\ mathOp' = "div_up"
    /\ mathRes' = div_up(mathA, mathB)
    /\ UNCHANGED <<mathA, mathB, notMathVars>>

MulUpCall ==
    /\ mathOp = "none"
    /\ mathOp' = "mul_up"
    /\ mathRes' = mul_up(mathA, mathB)
    /\ UNCHANGED <<mathA, mathB, notMathVars>>

NextMath == DivUpCall \/ MulUpCall

SpecMath == InitMath /\ [][NextMath]_vars

(***************************************************************************)
(* Claims on the pool math (checked under SpecMath)                        *)
(***************************************************************************)
MathCalled(op) == mathOp = op
NonZeroOperands == ~BigIsZero(mathA) /\ ~BigIsZero(mathB)

\* C5: div_up(0, b) is 0 without error for every b, and mul_up(0, b) and
\* mul_up(a, 0) are 0 without error for every a and b.
C5_ZeroOperandIsZero ==
    /\ (MathCalled("div_up") /\ BigIsZero(mathA)) => mathRes = Ok(u256(0))
    /\ (MathCalled("mul_up") /\ (BigIsZero(mathA) \/ BigIsZero(mathB)))
           => mathRes = Ok(u256(0))

C5_Witness ==
    /\ MathCalled("div_up")
    /\ BigIsZero(mathA)
    /\ mathB = U256_MAX
    /\ mathRes.ok

\* C6: for non-zero a and b, a result r of div_up(a, b) satisfies
\* r * b >= a over the unbounded integers.
C6_DivUpTimesDivisorReachesDividend ==
    (MathCalled("div_up") /\ NonZeroOperands /\ mathRes.ok)
        => BigLe(mathA, BigMul(mathRes.val, mathB))

C6_Witness ==
    /\ MathCalled("div_up")
    /\ mathA = u256(1)
    /\ mathB = U256_MAX
    /\ mathRes = Ok(u256(1))

\* C7 as stated: for non-zero a and b, a result r of div_up(a, b) satisfies
\* (r - 1) * b < a over the unbounded integers.
C7_Original ==
    (MathCalled("div_up") /\ NonZeroOperands /\ mathRes.ok)
        => BigLt(BigMul(BigSub(mathRes.val, u256(1)), mathB), mathA)

\* C7 amended: for non-zero a and b, a result r of div_up(a, b) satisfies
\* (r - 1) * b < a * 10^18 over the unbounded integers (r is the 18-decimal
\* fixed-point quotient, so the dividend is scaled by 10^18).
C7_DivUpMinusOneBelowScaledDividend ==
    (MathCalled("div_up") /\ NonZeroOperands /\ mathRes.ok)
        => /\ ~BigIsZero(mathRes.val)
           /\ BigLt(BigMul(BigSub(mathRes.val, u256(1)), mathB),
                    BigMul(mathA, ONE))

C7_Witness ==
    /\ MathCalled("div_up")
    /\ mathA = u256(1)
    /\ mathB = u256(1)
    /\ mathRes = Ok(ONE)

\* C8: for a # 0, div_up(a, b) is ((a * 10^18 - 1) div b) + 1 computed
\* exactly when b # 0 and a * 10^18 < 2^256, and an error otherwise; for
\* a # 0 and b # 0, mul_up(a, b) is ((a * b - 1) div 10^18) + 1 computed
\* exactly when a * b < 2^256, and an error otherwise.  No result is ever
\* reduced modulo 2^256.
C8_ExactOrError ==
    /\ (MathCalled("div_up") /\ ~BigIsZero(mathA)) =>
           IF ~BigIsZero(mathB) /\ FitsU256(BigMul(mathA, ONE))
           THEN mathRes =
                    Ok(BigAdd(BigDiv(BigSub(BigMul(mathA, ONE), u256(1)), mathB),
                              u256(1)))
           ELSE ~mathRes.ok
    /\ (MathCalled("mul_up") /\ NonZeroOperands) =>
           IF FitsU256(BigMul(mathA, mathB))
           THEN mathRes =
                    Ok(BigAdd(BigDiv(BigSub(BigMul(mathA, mathB), u256(1)), ONE),
                              u256(1)))
           ELSE ~mathRes.ok

C8_Witness ==
    /\ MathCalled("div_up")
    /\ mathA = BigAdd(MaxScalable, u256(1))
    /\ mathB = u256(1)
    /\ ~mathRes.ok

(***************************************************************************)
(* Claims on the resolver (checked under SpecResolver)                     *)
(***************************************************************************)
PushesConsole(instruction) ==
    /\ IsSome(instruction.ex)
    /\ console_address \in Range(Unwrap(instruction.ex).push)

\* the instruction at index i carries a nested call that counts: its trace
\* has an instruction, or it is empty and an instruction before it, after
\* the closest preceding instruction with a nested call, pushed the logging
\* address
CountsAsCall(ops, i) ==
    /\ IsSome(ops[i].sub)
    /\ \/ Unwrap(ops[i].sub).ops # << >>
       \/ \E j \in 1..(i - 1) :
              /\ PushesConsole(ops[j])
              /\ \A k \in j..(i - 1) : IsNone(ops[k].sub)

CountedIndices(ops) == {i \in 1..Len(ops) : CountsAsCall(ops, i)}

\* the index of the n-th (0-based) counted nested call
NthCounted(ops, n) ==
    CHOOSE i \in CountedIndices(ops) :
        Cardinality({j \in CountedIndices(ops) : j < i}) = n

\* descending from node along path from its k-th segment on
RECURSIVE Descend(_, _, _)
Descend(node, path, k) ==
    IF k > Len(path) THEN [inRange |-> TRUE, node |-> node]
    ELSE IF path[k] >= Cardinality(CountedIndices(node.ops))
    THEN [inRange |-> FALSE, node |-> node]
    ELSE Descend(Unwrap(node.ops[NthCounted(node.ops, path[k])].sub), path, k + 1)

\* C1: when a segment of a non-empty call path is not the index of a counted
\* nested call of the node reached so far, extract_sub_vm_trace returns the
\* "trace_address is out of bounds" error and no trace.
C1_OutOfRangeFails ==
    (rsDone /\ rsPath # << >> /\ ~Descend(rsTrace, rsPath, 1).inRange)
        => (~rsRes.ok /\ rsRes.err = "trace_address is out of bounds")

\* C2: for a call path in range at every level, extract_sub_vm_trace returns
\* the node reached by descending, for each segment N in order, into the
\* N-th counted nested call; for the empty path it returns the root.
C2_InRangeResolves ==
    (rsDone /\ Descend(rsTrace, rsPath, 1).inRange)
        => (rsRes.ok /\ rsRes.val = Descend(rsTrace, rsPath, 1).node)

\* path [1] over [push console, empty nested call, non-empty nested call]:
\* the logging pseudo-call is number 0, the non-empty call is returned
C2_Witness ==
    /\ rsDone
    /\ rsPath = <<1>>
    /\ Len(rsTrace.ops) = 3
    /\ PushesConsole(rsTrace.ops[1])
    /\ rsTrace.ops[2].sub = Some(VmTrace(<< >>, << >>))
    /\ rsTrace.ops[3].sub = Some(VmTrace(<< >>, <<PlainInstruction>>))
    /\ rsRes = Ok(VmTrace(<< >>, <<PlainInstruction>>))


(***************************************************************************)
(* Specification of the storage index: a trace is drawn, StateBySubPath    *)
(* ::new walks it one instruction at a time, then one lookup is made.      *)
(***************************************************************************)
MaxIndexInstructions == 3
MaxPositionId == 1

K1 == u256(7)
K2 == u256(8)
V1 == u256(1)
V5 == u256(5)

\* bytecode whose byte at offset 1 is SLOAD
IndexCode == <<0, SLOAD_OPCODE>>

StoreInstruction(k, v) ==
    VmInstruction(0, Some(VmExecutedOperation(<< >>, Some(StorageDelta(k, v)))), None)
SloadInstruction(v) ==
    VmInstruction(1, Some(VmExecutedOperation(<<v>>, None)), None)

IndexBase ==
    {StoreInstruction(K1, V1), StoreInstruction(K1, V5), StoreInstruction(K2, V1),
     PushInstruction(K1), SloadInstruction(V5)}
IndexTraces == TracesUpTo(MaxIndexInstructions, IndexBase, IndexCode)
IndexKeys == {K1, K2, V5}
IndexPaths == SeqsUpTo(0..1, 2)
Positions ==
    {PositionFirst, PositionLast} \cup {PositionId(n) : n \in 0..MaxPositionId}

\* StateBySubPath::new up to the call of find_storage_value(vm_trace, &[])
InitIndex ==
    /\ ixTrace \in IndexTraces
    /\ ixStack = <<Frame(ixTrace, << >>, 1, 0)>>
    /\ ixBuilt = FALSE
    /\ load_map = EmptyMap
    /\ store_map = EmptyMap
    /\ lkQuery = IdleQuery
    /\ lkRes = None
    /\ IdleExceptIndex

\* a variant that recurses into every nested trace, empty ones included
HasIndexedSub_any(instruction) == IsSome(instruction.sub)

\* `if let Some(sub) = &instruction.sub` and not `sub.ops.is_empty()`: the
\* loop recurses into the nested trace of the instruction
HasIndexedSub(instruction) ==
    IF IsSome(instruction.sub)
    THEN Unwrap(instruction.sub).ops # << >>
    ELSE FALSE

\* one iteration of the loop of find_storage_value
FindStorageValueStep ==
    /\ ixStack # << >>
    /\ LET depth == Len(ixStack)
           top == ixStack[depth]
           ops == top.vm_trace.ops
           i == top.position
       IN  /\ i <= Len(ops)
           /\ LET instruction == ops[i]
                  load == IF i + 1 <= Len(ops)
                          THEN extract_storage_load(instruction, ops[i + 1],
                                                    top.vm_trace.code)
                          ELSE None
                  store == extract_storage_store(instruction)
                  recurse == HasIndexedSub(instruction)
              IN  /\ load_map' =
                        IF IsSome(load)
                        THEN upsert_in_map(load_map, Unwrap(load)[1],
                                           Unwrap(load)[2], top.sub_path)
                        ELSE load_map
                  /\ store_map' =
                        IF IsSome(store)
                        THEN upsert_in_map(store_map, Unwrap(store)[1],
                                           Unwrap(store)[2], top.sub_path)
                        ELSE store_map
                  /\ ixStack' =
                        IF recurse
                        THEN Append(
                                [ixStack EXCEPT ![depth] =
                                    Frame(top.vm_trace, top.sub_path, i + 1,
                                          top.sub_path_counter + 1)],
                                Frame(Unwrap(instruction.sub),
                                      Append(top.sub_path, top.sub_path_counter),
                                      1, 0))
                        ELSE [ixStack EXCEPT ![depth] =
                                    Frame(top.vm_trace, top.sub_path, i + 1,
                                          top.sub_path_counter)]
    /\ UNCHANGED <<ixTrace, ixBuilt, lkQuery, lkRes, notIndexVars>>

\* the loop of find_storage_value ends: return to the caller
FindStorageValueReturn ==
    /\ ixStack # << >>
    /\ LET depth == Len(ixStack)
           top == ixStack[depth]
       IN  /\ top.position > Len(top.vm_trace.ops)
           /\ ixStack' = SubSeq(ixStack, 1, depth - 1)
           /\ ixBuilt' = (depth = 1)
    /\ UNCHANGED <<ixTrace, load_map, store_map, lkQuery, lkRes, notIndexVars>>

GetLoadValue ==
    /\ ixBuilt
    /\ lkQuery = IdleQuery
    /\ \E k \in IndexKeys, p \in IndexPaths, pos \in Positions :
          /\ lkQuery' = [fn |-> "get_load_value", storage_key |-> k,
                         sub_path |-> p, position |-> pos]
          /\ lkRes' = get_load_value(load_map, store_map, k, p, pos)
    /\ UNCHANGED <<ixTrace, ixStack, ixBuilt, load_map, store_map, notIndexVars>>

GetStoreValue ==
    /\ ixBuilt
    /\ lkQuery = IdleQuery
    /\ \E k \in IndexKeys, p \in IndexPaths, pos \in Positions :
          /\ lkQuery' = [fn |-> "get_store_value", storage_key |-> k,
                         sub_path |-> p, position |-> pos]
          /\ lkRes' = get_store_value(load_map, store_map, k, p, pos)
    /\ UNCHANGED <<ixTrace, ixStack, ixBuilt, load_map, store_map, notIndexVars>>

NextIndex ==
    \/ FindStorageValueStep
    \/ FindStorageValueReturn
    \/ GetLoadValue
    \/ GetStoreValue

SpecIndex == InitIndex /\ [][NextIndex]_vars


(***************************************************************************)
(* Claims about the storage index                                          *)
(***************************************************************************)
\* the instructions of ops that carry a non-empty nested trace
NestedIndices(ops) ==
    {i \in 1..Len(ops) :
        IF IsSome(ops[i].sub) THEN Unwrap(ops[i].sub).ops # << >> ELSE FALSE}

\* the frames of a trace, each with its sub-path: the node itself, and the
\* frames of its non-empty nested traces numbered 0, 1, ... in order
RECURSIVE FramesOf(_, _)
FramesOf(node, path) ==
    LET nested == NestedIndices(node.ops)
        rank(i) == Cardinality({j \in nested : j < i})
    IN  {[sub_path |-> path, node |-> node]} \cup
        UNION {FramesOf(Unwrap(node.ops[i].sub), Append(path, rank(i))) :
                  i \in nested}

\* instruction i of the frame is followed by an instruction at an SLOAD and
\* both carry pushed values
IsLoadAt(node, i) ==
    /\ i < Len(node.ops)
    /\ node.ops[i + 1].pc < Len(node.code)
    /\ node.code[node.ops[i + 1].pc + 1] = SLOAD_OPCODE
    /\ IsSome(node.ops[i].ex)
    /\ IsSome(node.ops[i + 1].ex)
    /\ Unwrap(node.ops[i].ex).push # << >>
    /\ Unwrap(node.ops[i + 1].ex).push # << >>

LoadKeyAt(node, i) ==
    LET push == Unwrap(node.ops[i].ex).push IN push[Len(push)]
LoadValueAt(node, i) ==
    LET push == Unwrap(node.ops[i + 1].ex).push IN push[Len(push)]

IsStoreAt(node, i) ==
    IF IsSome(node.ops[i].ex) THEN IsSome(Unwrap(node.ops[i].ex).store) ELSE FALSE
StoreKeyAt(node, i) == Unwrap(Unwrap(node.ops[i].ex).store).key
StoreValueAt(node, i) == Unwrap(Unwrap(node.ops[i].ex).store).val

\* the values of the loads (stores) of key k in the first n instructions of
\* the frame, in instruction order
RECURSIVE LoadsOf(_, _, _)
LoadsOf(node, k, n) ==
    IF n = 0 THEN << >>
    ELSE LET before == LoadsOf(node, k, n - 1)
         IN  IF IsLoadAt(node, n)
             THEN IF LoadKeyAt(node, n) = k
                  THEN Append(before, LoadValueAt(node, n))
                  ELSE before
             ELSE before

RECURSIVE StoresOf(_, _, _)
StoresOf(node, k, n) ==
    IF n = 0 THEN << >>
    ELSE LET before == StoresOf(node, k, n - 1)
         IN  IF IsStoreAt(node, n)
             THEN IF StoreKeyAt(node, n) = k
                  THEN Append(before, StoreValueAt(node, n))
                  ELSE before
             ELSE before

EventKeys(frames) ==
    UNION {{LoadKeyAt(f.node, i) : i \in {j \in 1..Len(f.node.ops) : IsLoadAt(f.node, j)}}
           \cup {StoreKeyAt(f.node, i) : i \in {j \in 1..Len(f.node.ops) : IsStoreAt(f.node, j)}}
           : f \in frames}

HasList(map, k, p) == IF k \in DOMAIN map THEN p \in DOMAIN map[k] ELSE FALSE
ListAt(map, k, p) == IF HasList(map, k, p) THEN map[k][p] ELSE << >>
MapPaths(map) == UNION {DOMAIN map[k] : k \in DOMAIN map}

IndexMatchesFrames ==
    LET frames == FramesOf(ixTrace, << >>)
        keys == EventKeys(frames) \cup DOMAIN load_map \cup DOMAIN store_map
        paths == {f.sub_path : f \in frames} \cup MapPaths(load_map)
                 \cup MapPaths(store_map)
        framesAt(p) == {f \in frames : f.sub_path = p}
    IN  /\ \A p \in {f.sub_path : f \in frames} : Cardinality(framesAt(p)) = 1
        /\ \A k \in keys, p \in paths :
              LET expectedLoads ==
                      IF framesAt(p) = {} THEN << >>
                      ELSE LET f == CHOOSE f \in framesAt(p) : TRUE
                           IN  LoadsOf(f.node, k, Len(f.node.ops))
                  expectedStores ==
                      IF framesAt(p) = {} THEN << >>
                      ELSE LET f == CHOOSE f \in framesAt(p) : TRUE
                           IN  StoresOf(f.node, k, Len(f.node.ops))
              IN  /\ ListAt(load_map, k, p) = expectedLoads
                  /\ ListAt(store_map, k, p) = expectedStores
                  /\ HasList(load_map, k, p) => expectedLoads # << >>
                  /\ HasList(store_map, k, p) => expectedStores # << >>

IsPrefix(q, r) == IF Len(q) <= Len(r) THEN SubSeq(r, 1, Len(q)) = q ELSE FALSE

OnlyAppended(map, mapNext) ==
    \A k \in DOMAIN map :
        /\ k \in DOMAIN mapNext
        /\ \A p \in DOMAIN map[k] :
              /\ p \in DOMAIN mapNext[k]
              /\ IsPrefix(map[k][p], mapNext[k][p])

AppendOnly ==
    /\ OnlyAppended(load_map, load_map')
    /\ OnlyAppended(store_map, store_map')

\* C3: once StateBySubPath::new has returned, the load and the store list
\* at every (slot key, sub-path) are exactly the detected loads and the
\* storage writes of that key in the frame at that sub-path, in instruction
\* order with duplicates kept, so that every event is in the list of its
\* own frame only; and no step of the build removes or reorders a value.
C3_ListsAreFrameEvents ==
    /\ [](ixBuilt => IndexMatchesFrames)
    /\ [][AppendOnly]_vars

C3_Witness ==
    /\ ixBuilt
    /\ ixTrace.ops = <<CallInstruction(VmTrace(IndexCode,
                           <<StoreInstruction(K1, V1), StoreInstruction(K1, V1)>>))>>
    /\ ListAt(store_map, K1, <<0>>) = <<V1, V1>>
    /\ ~HasList(store_map, K1, << >>)

\* C4: a lookup returns the first value of the list at (key, sub-path) for
\* First, the last one for Last, the n-th (0-based) for Id(n), and nothing
\* when the key or the sub-path has no entry or n is past the end;
\* get_store_value reads the store lists only, get_load_value the load
\* lists only.
C4_LookupSelectsFromOwnList ==
    lkQuery.fn # "none" =>
        LET map == IF lkQuery.fn = "get_store_value" THEN store_map ELSE load_map
            found == HasList(map, lkQuery.storage_key, lkQuery.sub_path)
            list == ListAt(map, lkQuery.storage_key, lkQuery.sub_path)
            n == lkQuery.position.id
        IN  IF ~found THEN lkRes = None
            ELSE CASE lkQuery.position.kind = "First" ->
                        /\ list # << >>
                        /\ lkRes = Some(list[1])
                   [] lkQuery.position.kind = "Last" ->
                        /\ list # << >>
                        /\ lkRes = Some(list[Len(list)])
                   [] lkQuery.position.kind = "Id" ->
                        IF n < Len(list) THEN lkRes = Some(list[n + 1])
                        ELSE lkRes = None

C4_Witness ==
    /\ ListAt(store_map, K1, <<0>>) = <<V1, V5>>
    /\ ~HasList(load_map, K1, <<0>>)
    /\ lkQuery = [fn |-> "get_store_value", storage_key |-> K1,
                  sub_path |-> <<0>>, position |-> PositionLast]
    /\ lkRes = Some(V5)


(***************************************************************************)
(* Specification of the swap reconstruction: one onSwap call trace is      *)
(* given to SwapFetcher::process_on_swap_trace.                            *)
(***************************************************************************)
MaxBlockNumber == 0

OTHER_TOKEN_ADDRESS == "6B175474E89094C44Da98b954EedeAC495271d0F"
SwapTokens ==
    {SDAI_ADDRESS, EURE_ADDRESS, BALANCER_SDAI_EURE_POOL_ADDRESS,
     OTHER_TOKEN_ADDRESS}
SwapAmounts == {u256(0), ONE, U256_MAX}
SwapReturns ==
    {u256(0), BigMul(u256(95), BigPow(u256(10), 16)), BigMul(u256(3), ONE),
     U256_MAX}
SwapTxHash == u256(161)
NodeTimestamps == {1000, 1005}

\* a transaction whose top frame reads and writes the pool's own share
\* balance and whose first nested call reads and writes the total supply
ShareTrace ==
    VmTrace(IndexCode,
        <<PushInstruction(BPT_BALANCE_POOL_STORAGE_KEY),
          SloadInstruction(BigAdd(BigMul(TWO128, u256(5)),
                                  BigMul(u256(100), ONE))),
          StoreInstruction(BPT_BALANCE_POOL_STORAGE_KEY, BigMul(u256(100), ONE)),
          CallInstruction(VmTrace(IndexCode,
            <<PushInstruction(BPT_TOTAL_SUPPLY_STORAGE_KEY),
              SloadInstruction(BigMul(u256(1100), ONE)),
              StoreInstruction(BPT_TOTAL_SUPPLY_STORAGE_KEY,
                               BigMul(u256(1101), ONE))>>))>>)
EmptyTxTrace == VmTrace(IndexCode, << >>)
FullBalances == <<BigMul(u256(1000), ONE), BigMul(u256(2000), ONE)>>

\* the balances of the call, its call path and the VM trace of its
\* transaction
SwapSettings ==
    {[balances |-> << >>, path |-> << >>, tx_vm_trace |-> EmptyTxTrace],
     [balances |-> FullBalances, path |-> <<0>>, tx_vm_trace |-> EmptyTxTrace],
     [balances |-> FullBalances, path |-> << >>, tx_vm_trace |-> ShareTrace],
     [balances |-> FullBalances, path |-> <<0>>, tx_vm_trace |-> ShareTrace]}

SwapRequests ==
    {SwapRequest(kind, tokenIn, tokenOut, amount) :
        kind \in SwapKinds, tokenIn \in SwapTokens, tokenOut \in SwapTokens,
        amount \in SwapAmounts}

OnSwapCallsIn(setting) ==
    {OnSwapCallArgs(decoded_in, result, SwapTxHash,
                    stringify_vec_usize(setting.path), block_number,
                    setting.path, setting.tx_vm_trace) :
        decoded_in \in {None} \cup {Some(onSwapCall(r, setting.balances)) :
                                      r \in SwapRequests},
        result \in {None, Some(TraceResult(None))}
                   \cup {Some(TraceResult(Some(v))) : v \in SwapReturns},
        block_number \in 0..MaxBlockNumber}

OnSwapCalls == UNION {OnSwapCallsIn(setting) : setting \in SwapSettings}

\* BlockTimestampFetcher::try_new: no blocks.csv, or one with block 0
InitTimestamps ==
    /\ \/ /\ block_timestamp_by_number = EmptyMap
          /\ block_number_by_timestamp = EmptyMap
       \/ /\ block_timestamp_by_number = (0 :> 1000)
          /\ block_number_by_timestamp = (1000 :> 0)
    /\ blocks_csv = << >>

InitOnSwap ==
    /\ osCall \in OnSwapCalls
    /\ osDone = FALSE
    /\ osOut = Returned(Ok(None))
    /\ InitTimestamps
    /\ IdleExceptOnSwap

\* SwapFetcher::process_on_swap_trace (on_swap.rs)
ProcessOnSwapTrace ==
    /\ ~osDone
    /\ osDone' = TRUE
    /\ \E decoded \in {OnSwapDecoded(osCall.decoded_in, osCall.result)} :
          IF (IF decoded.ok THEN IsNone(decoded.val) ELSE TRUE)
          THEN /\ osOut' = Returned(decoded)
               /\ UNCHANGED timestampVars
          ELSE \E node_timestamp \in NodeTimestamps :
                  \E fetched \in {try_into_block_timestamp(
                                      osCall.block_number,
                                      BlockTimestampFetcher(
                                          block_timestamp_by_number,
                                          block_number_by_timestamp,
                                          blocks_csv),
                                      node_timestamp)} :
                      /\ block_timestamp_by_number' =
                            fetched.self.block_timestamp_by_number
                      /\ block_number_by_timestamp' =
                            fetched.self.block_number_by_timestamp
                      /\ blocks_csv' = fetched.self.csv
                      /\ osOut' =
                            IF ~fetched.res.ok THEN Returned(fetched.res)
                            ELSE OnSwapReconstruct(
                                     Unwrap(decoded.val)[1],
                                     Unwrap(decoded.val)[2],
                                     fetched.res.val, osCall.tx_hash,
                                     osCall.trace_path, osCall.block_number,
                                     osCall.trace_address, osCall.tx_vm_trace)
    /\ UNCHANGED <<osCall, notOnSwapVars>>

NextOnSwap == ProcessOnSwapTrace

SpecOnSwap == InitOnSwap /\ [][NextOnSwap]_vars

(***************************************************************************)
(* Claims about the direct swap                                            *)
(***************************************************************************)
DigitValue(c) == CHOOSE d \in 0..9 : HexChars[d + 1] = c

\* the number a decimal string denotes: the digits are taken three at a
\* time from the right, each group is one base-1000 limb
DecimalGroup(str, i) ==
    LET last == Len(str) - 3 * (i - 1)
        digit(j) == IF j >= 1 THEN DigitValue(str[j]) ELSE 0
    IN  digit(last) + 10 * digit(last - 1) + 100 * digit(last - 2)

DecimalValue(str) ==
    Norm([i \in 1..((Len(str) + 2) \div 3) |-> DecimalGroup(str, i)])

\* str is the decimal numeral of x: digits only, no leading zero
IsDecimalOf(str, x) ==
    /\ str # << >>
    /\ \A i \in 1..Len(str) : \E d \in 0..9 : HexChars[d + 1] = str[i]
    /\ Len(str) > 1 => str[1] # "0"
    /\ DecimalValue(str) = x

OnSwapDecodedBoth ==
    /\ osDone
    /\ IsSome(osCall.decoded_in)
    /\ IF IsSome(osCall.result)
       THEN IsSome(Unwrap(osCall.result).decoded_out)
       ELSE FALSE

OnSwapDirect(tokenIn, tokenOut) ==
    /\ OnSwapDecodedBoth
    /\ Unwrap(osCall.decoded_in).swapRequest.tokenIn = tokenIn
    /\ Unwrap(osCall.decoded_in).swapRequest.tokenOut = tokenOut

OnSwapRecordIs(is_buy_eure, sdai, eure) ==
    /\ ~osOut.panic
    /\ osOut.res.ok
    /\ IsSome(osOut.res.val)
    /\ LET record == Unwrap(osOut.res.val)
       IN  /\ record.is_buy_eure = is_buy_eure
           /\ IsDecimalOf(record.sdai_amount, sdai)
           /\ IsDecimalOf(record.eure_amount, eure)

\* C10: a decoded onSwap call from sDAI to EURe gives, whatever its kind,
\* a record with is_buy_eure = true, sdai_amount the decimal numeral of the
\* request amount and eure_amount that of the returned value; from EURe to
\* sDAI, is_buy_eure = false, eure_amount the request amount and sdai_amount
\* the returned value; neither gives an error or no record.
C10_DirectSwapRecord ==
    /\ OnSwapDirect(SDAI_ADDRESS, EURE_ADDRESS) =>
          OnSwapRecordIs(TRUE,
                         Unwrap(osCall.decoded_in).swapRequest.amount,
                         Unwrap(Unwrap(osCall.result).decoded_out))
    /\ OnSwapDirect(EURE_ADDRESS, SDAI_ADDRESS) =>
          OnSwapRecordIs(FALSE,
                         Unwrap(Unwrap(osCall.result).decoded_out),
                         Unwrap(osCall.decoded_in).swapRequest.amount)

C10_Witness ==
    /\ OnSwapDirect(SDAI_ADDRESS, EURE_ADDRESS)
    /\ Unwrap(osCall.decoded_in).swapRequest.kind = "GIVEN_OUT"
    /\ Unwrap(osCall.decoded_in).swapRequest.amount = ONE
    /\ osOut.res.ok
    /\ IsSome(osOut.res.val)
    /\ Unwrap(osOut.res.val).is_buy_eure
    /\ Unwrap(osOut.res.val).sdai_amount =
          <<"1", "0", "0", "0", "0", "0", "0", "0", "0", "0", "0", "0", "0", "0", "0", "0", "0", "0", "0">>
    /\ Unwrap(osOut.res.val).eure_amount =
          <<"9", "5", "0", "0", "0", "0", "0", "0", "0", "0", "0", "0", "0", "0", "0", "0", "0", "0">>


(***************************************************************************)
(* Claims about the swaps from and to the pool share token                 *)
(***************************************************************************)
\* the call path has a last segment and its head resolves in the VM trace
OnSwapResolves ==
    /\ ~SplitLastPanics(osCall.trace_address)
    /\ fetch_sub_vm_trace(osCall.tx_vm_trace,
                          SplitLastHead(osCall.trace_address)).ok

\* the pro-rata values of bpt shares for the call, as
\* compute_sdai_eure_from_bpt gives them on the index of the resolved trace
OnSwapProRata(bpt, is_bpt_mint) ==
    compute_sdai_eure_from_bpt(
        StateBySubPath_new(
            fetch_sub_vm_trace(osCall.tx_vm_trace,
                               SplitLastHead(osCall.trace_address)).val),
        SplitLastTail(osCall.trace_address), bpt, is_bpt_mint,
        Unwrap(osCall.decoded_in).balances)

OnSwapAmount == Unwrap(osCall.decoded_in).swapRequest.amount
OnSwapReturned == Unwrap(Unwrap(osCall.result).decoded_out)
OnSwapFailed == ~osOut.panic /\ ~osOut.res.ok

\* a swap out of the share token, with its pro-rata values known
OnSwapFromShares(tokenOut) ==
    /\ OnSwapDirect(BALANCER_SDAI_EURE_POOL_ADDRESS, tokenOut)
    /\ OnSwapResolves
    /\ OnSwapProRata(OnSwapAmount, FALSE).ok

\* a swap into the share token, with its pro-rata values known
OnSwapToShares(tokenIn, index) ==
    /\ OnSwapDirect(tokenIn, BALANCER_SDAI_EURE_POOL_ADDRESS)
    /\ OnSwapResolves
    /\ IsSome(Get(Unwrap(osCall.decoded_in).balances, index))
    /\ OnSwapProRata(OnSwapReturned, TRUE).ok

\* balance + amount of the swapped asset fits 256 bits
OnSwapBalanceFits(index) ==
    FitsU256(BigAdd(Unwrap(Get(Unwrap(osCall.decoded_in).balances, index)),
                    OnSwapAmount))

MaxSlotEvents == 2

\* the instructions that load the values of a slot, one after the other
LoadOps(key, values) ==
    [i \in 1..(2 * Len(values)) |->
        IF i % 2 = 1 THEN PushInstruction(key)
        ELSE SloadInstruction(values[i \div 2])]
\* the instructions that store the values to a slot
StoreOps(key, values) ==
    [i \in 1..Len(values) |-> StoreInstruction(key, values[i])]
\* what is stored after word was loaded: one share more
Stored(values) == [i \in 1..Len(values) |-> BigAdd(values[i], ONE)]

\* a frame that loads and stores the pool's own share balance and calls a
\* frame that loads and stores the total supply; extra are the further
\* instructions of the called frame
ShareTraceOf(pool_words, supply_words, extra) ==
    VmTrace(IndexCode,
        LoadOps(BPT_BALANCE_POOL_STORAGE_KEY, pool_words)
        \o StoreOps(BPT_BALANCE_POOL_STORAGE_KEY, Stored(pool_words))
        \o <<CallInstruction(VmTrace(IndexCode,
                LoadOps(BPT_TOTAL_SUPPLY_STORAGE_KEY, supply_words)
                \o StoreOps(BPT_TOTAL_SUPPLY_STORAGE_KEY, Stored(supply_words))
                \o extra))>>)

PoolWords ==
    {BigMul(u256(100), ONE),
     BigAdd(BigMul(TWO128, u256(5)), BigMul(u256(100), ONE))}
SupplyWords == {BigMul(u256(1100), ONE), BigMul(u256(50), ONE)}
ShareTraces ==
    {ShareTraceOf(pool_words, supply_words, << >>) :
        pool_words \in SeqsUpTo(PoolWords, MaxSlotEvents),
        supply_words \in SeqsUpTo(SupplyWords, MaxSlotEvents)}
ShareAmounts == {u256(0), ONE, U256_MAX}
ShareBalances ==
    {<< >>, <<BigMul(u256(1000), ONE)>>, FullBalances,
     <<U256_MAX, BigMul(u256(2000), ONE)>>}

\* the arguments of one call: of compute_sdai_eure_from_bpt the amount of
\* shares and is_bpt_mint, of the two reconstructions the account
\* (recipient or sender), userData and the amounts the call returned
PoolArguments(fn, vm_trace, sub_trace_address, bpt_mint_burn, is_bpt_mint, balances, account, userData, returned) ==
    [fn |-> fn, vm_trace |-> vm_trace,
     sub_trace_address |-> sub_trace_address, bpt_mint_burn |-> bpt_mint_burn,
     is_bpt_mint |-> is_bpt_mint, balances |-> balances, account |-> account,
     userData |-> userData, returned |-> returned]

SharesCall(vm_trace, sub_trace_address, bpt_mint_burn, is_bpt_mint, balances) ==
    PoolArguments("compute_sdai_eure_from_bpt", vm_trace, sub_trace_address,
                  bpt_mint_burn, is_bpt_mint, balances, 0, << >>, << >>)

SharesCalls ==
    {SharesCall(vm_trace, sub_trace_address, bpt_mint_burn, is_bpt_mint,
                balances) :
        vm_trace \in ShareTraces, sub_trace_address \in {<<0>>, <<1>>},
        bpt_mint_burn \in ShareAmounts, is_bpt_mint \in BOOLEAN,
        balances \in ShareBalances}

\* the address of the recipient of a join, of the sender of an exit
Account == 1

\* a call at sub-path <<0>>: the pool holds 100 of its 1100 shares before
\* the call (101 of 1101 after it), the frame of the call loads and stores
\* the share balance of holder
AccountTrace(holder, befores, afters) ==
    ShareTraceOf(<<BigMul(u256(100), ONE)>>, <<BigMul(u256(1100), ONE)>>,
                 LoadOps(balance_key(holder), befores)
                 \o StoreOps(balance_key(holder), afters))

Ones(n) == BigMul(u256(n), ONE)
BalancesBefore == {<<Ones(999), Ones(1999)>>, <<Ones(998), Ones(1998)>>}
OddBalances ==
    {<< >>, <<Ones(999)>>, <<U256_MAX, Ones(1999)>>, <<Ones(999), U256_MAX>>}
Tags == {u256(0), u256(1), u256(2), u256(3), u256(4), u256(256), u256(257)}

JoinCall(vm_trace, balances, userData, returned) ==
    PoolArguments("process_on_join_pool_trace", vm_trace, <<0>>, << >>, TRUE,
                  balances, Account, userData, returned)
ExitCall(vm_trace, balances, userData, returned) ==
    PoolArguments("process_on_exit_pool_trace", vm_trace, <<0>>, << >>, FALSE,
                  balances, Account, userData, returned)

\* the recipient owns 5 shares before and 6 after
JoinTrace == AccountTrace(Account, <<Ones(5)>>, <<Ones(6)>>)
\* the sender owns 5 shares before and 4 after
ExitTrace == AccountTrace(Account, <<Ones(5)>>, <<Ones(4)>>)

\* the histories of the share balance slot of the account, and one of the
\* slot of another account
SlotTraces ==
    {AccountTrace(holder, befores, afters) :
        holder \in {Account},
        befores \in {<< >>, <<Ones(5)>>, <<Ones(5), Ones(6)>>},
        afters \in SeqsUpTo({Ones(4), Ones(6), Ones(7)}, MaxSlotEvents)}
    \cup {AccountTrace(Account + 1, <<Ones(5)>>, <<Ones(6)>>)}

JoinCalls ==
    {JoinCall(JoinTrace, balances, <<u256(1)>>, <<Ones(s), Ones(e)>>) :
        balances \in BalancesBefore, s \in 0..2, e \in 0..3}
    \cup {JoinCall(vm_trace, <<Ones(999), Ones(1999)>>, <<u256(1)>>,
                   <<Ones(1), Ones(2)>>) : vm_trace \in SlotTraces}
    \cup {JoinCall(JoinTrace, balances, <<u256(1)>>, <<Ones(1), Ones(2)>>) :
            balances \in OddBalances}
    \cup {JoinCall(JoinTrace, <<Ones(999), Ones(1999)>>, <<u256(1)>>, returned) :
            returned \in {<< >>, <<Ones(1)>>}}
    \cup {JoinCall(JoinTrace, <<Ones(999), Ones(1999)>>, userData,
                   <<Ones(1), Ones(2)>>) :
            userData \in {<< >>} \cup {<<tag>> : tag \in Tags}}

\* userData of an exit: the tag, the shares sent, two words, the amounts
\* of sDAI and of EURe asked for
ExitCalls ==
    {ExitCall(ExitTrace, FullBalances, <<u256(0), shares>>,
              <<Ones(s), Ones(e)>>) :
        shares \in {u256(0), ONE}, s \in 0..3, e \in 0..3}
    \cup {ExitCall(ExitTrace, FullBalances, <<u256(0), ONE>>, returned) :
            returned \in {<< >>, <<Ones(1)>>}}
    \cup {ExitCall(ExitTrace, FullBalances,
                   <<u256(1), u256(0), u256(0), u256(0), Ones(s), Ones(e)>>,
                   << >>) : s \in 0..3, e \in 0..3}
    \cup {ExitCall(vm_trace, FullBalances,
                   <<u256(1), u256(0), u256(0), u256(0), Ones(3), Ones(1)>>,
                   << >>) : vm_trace \in SlotTraces}
    \cup {ExitCall(ExitTrace, FullBalances, userData, <<Ones(3), u256(0)>>) :
            userData \in {<< >>, <<u256(1)>>,
                          <<u256(1), u256(0), u256(0), u256(0), Ones(3)>>}
                         \cup {<<tag>> : tag \in Tags}}
    \cup {ExitCall(ExitTrace, balances, <<u256(0), ONE>>,
                   <<Ones(3), u256(0)>>) : balances \in OddBalances}

PoolCalls == SharesCalls \cup JoinCalls \cup ExitCalls

InitPool ==
    /\ poolCall \in PoolCalls
    /\ poolDone = FALSE
    /\ poolOut = Ok(None)
    /\ IdleExceptPool

\* compute_sdai_eure_from_bpt on the index of the trace
ComputeSdaiEureFromBpt ==
    /\ ~poolDone
    /\ poolCall.fn = "compute_sdai_eure_from_bpt"
    /\ poolDone' = TRUE
    /\ poolOut' = compute_sdai_eure_from_bpt(
                      StateBySubPath_new(poolCall.vm_trace),
                      poolCall.sub_trace_address, poolCall.bpt_mint_burn,
                      poolCall.is_bpt_mint, poolCall.balances)
    /\ UNCHANGED <<poolCall, notPoolVars>>

\* process_on_join_pool_trace on the index of the trace
ProcessOnJoinPoolTrace ==
    /\ ~poolDone
    /\ poolCall.fn = "process_on_join_pool_trace"
    /\ poolDone' = TRUE
    /\ poolOut' = process_on_join_pool_trace(
                      StateBySubPath_new(poolCall.vm_trace),
                      poolCall.sub_trace_address,
                      onJoinPoolCall(poolCall.account, poolCall.balances,
                                     poolCall.userData),
                      poolCall.returned)
    /\ UNCHANGED <<poolCall, notPoolVars>>

\* process_on_exit_pool_trace on the index of the trace
ProcessOnExitPoolTrace ==
    /\ ~poolDone
    /\ poolCall.fn = "process_on_exit_pool_trace"
    /\ poolDone' = TRUE
    /\ poolOut' = process_on_exit_pool_trace(
                      StateBySubPath_new(poolCall.vm_trace),
                      poolCall.sub_trace_address,
                      onExitPoolCall(poolCall.account, poolCall.balances,
                                     poolCall.userData),
                      poolCall.returned)
    /\ UNCHANGED <<poolCall, notPoolVars>>

NextPool ==
    \/ ComputeSdaiEureFromBpt
    \/ ProcessOnJoinPoolTrace
    \/ ProcessOnExitPoolTrace

SpecPool == InitPool /\ [][NextPool]_vars

(***************************************************************************)
(* Claims about the pro-rata values of shares                              *)
(***************************************************************************)
SharesComputed == poolDone /\ poolCall.fn = "compute_sdai_eure_from_bpt"

\* the lists of the index the call reads: the stores when shares are
\* minted, the loads otherwise; the pool's own balance in the top frame,
\* the total supply at the sub-path of the call
SharesMap ==
    IF poolCall.is_bpt_mint
    THEN StateBySubPath_new(poolCall.vm_trace).store_map
    ELSE StateBySubPath_new(poolCall.vm_trace).load_map
PoolOwnBalanceList == ListAt(SharesMap, BPT_BALANCE_POOL_STORAGE_KEY, << >>)
TotalSupplyList ==
    ListAt(SharesMap, BPT_TOTAL_SUPPLY_STORAGE_KEY, poolCall.sub_trace_address)

\* (mul_up(sdaiBalance, r), mul_up(eureBalance, r)) with
\* r = div_up(shares, totalSupply - poolOwnBalance); an error when a slot
\* value or a balance is missing, when poolOwnBalance > totalSupply, when
\* div_up or mul_up fails
ProRataOf(poolOwnBalance, totalSupply, shares, balances) ==
    IF IsNone(poolOwnBalance) \/ IsNone(totalSupply) \/ Len(balances) < 2
    THEN Err("") ELSE
    IF BigLt(Unwrap(totalSupply), Unwrap(poolOwnBalance)) THEN Err("") ELSE
    IF ~div_up(shares,
               BigSub(Unwrap(totalSupply), Unwrap(poolOwnBalance))).ok
    THEN Err("") ELSE
    IF ~mul_up(balances[1],
               div_up(shares, BigSub(Unwrap(totalSupply),
                                     Unwrap(poolOwnBalance))).val).ok
       \/ ~mul_up(balances[2],
                  div_up(shares, BigSub(Unwrap(totalSupply),
                                        Unwrap(poolOwnBalance))).val).ok
    THEN Err("") ELSE
    Ok(<<mul_up(balances[1],
                div_up(shares, BigSub(Unwrap(totalSupply),
                                      Unwrap(poolOwnBalance))).val).val,
         mul_up(balances[2],
                div_up(shares, BigSub(Unwrap(totalSupply),
                                      Unwrap(poolOwnBalance))).val).val>>)

SameOutcome(result, expected) ==
    /\ result.ok = expected.ok
    /\ result.ok => result.val = expected.val

\* the low-order 16 bytes of a word found
LowHalf(word) == IF IsNone(word) THEN None ELSE Some(BigMod(Unwrap(word), TWO128))

\* C12 as stated: totalSupply and poolOwnBalance are the values found in
\* the index
C12_Original ==
    SharesComputed =>
        SameOutcome(poolOut,
                    ProRataOf(First(PoolOwnBalanceList), Last(TotalSupplyList),
                              poolCall.bpt_mint_burn, poolCall.balances))

\* C12: compute_sdai_eure_from_bpt returns (mul_up(sdaiBalance, r),
\* mul_up(eureBalance, r)) with r = div_up(shares, totalSupply -
\* poolOwnBalance), totalSupply and poolOwnBalance being the low-order 16
\* bytes of the values found in the index for their slots; it returns an
\* error and no amounts when poolOwnBalance > totalSupply, when a slot value
\* or a balance is missing, or when div_up or mul_up fails.
C12_ProRataOfLowHalves ==
    SharesComputed =>
        SameOutcome(poolOut,
                    ProRataOf(LowHalf(First(PoolOwnBalanceList)),
                              LowHalf(Last(TotalSupplyList)),
                              poolCall.bpt_mint_burn, poolCall.balances))

\* one share burned, the pool's own balance word with bits above the low
\* 16 bytes: 1 sDAI and 2 EURe
C12_Witness ==
    /\ SharesComputed
    /\ ~poolCall.is_bpt_mint
    /\ poolCall.bpt_mint_burn = ONE
    /\ poolCall.balances = FullBalances
    /\ PoolOwnBalanceList =
          <<BigAdd(BigMul(TWO128, u256(5)), BigMul(u256(100), ONE))>>
    /\ TotalSupplyList = <<BigMul(u256(50), ONE), BigMul(u256(1100), ONE)>>
    /\ poolOut = Ok(<<ONE, BigMul(u256(2), ONE)>>)

(***************************************************************************)
(* Claims about the reconstruction of joins and exits                      *)
(***************************************************************************)
PoolState == StateBySubPath_new(poolCall.vm_trace)
JoinDone == poolDone /\ poolCall.fn = "process_on_join_pool_trace"
ExitDone == poolDone /\ poolCall.fn = "process_on_exit_pool_trace"
JoinIn ==
    onJoinPoolCall(poolCall.account, poolCall.balances, poolCall.userData)
ExitIn ==
    onExitPoolCall(poolCall.account, poolCall.balances, poolCall.userData)

\* the values loaded from and stored to the share balance slot of the
\* account in the frame of the call, in the order of the trace
AccountLoads ==
    ListAt(PoolState.load_map, balance_key(poolCall.account),
           poolCall.sub_trace_address)
AccountStores ==
    ListAt(PoolState.store_map, balance_key(poolCall.account),
           poolCall.sub_trace_address)

PoolFailed == ~poolOut.ok
PoolNoSwap == poolOut = Ok(None)
PoolRecordIs(is_buy_eure, sdai, eure) ==
    /\ poolOut.ok
    /\ IsSome(poolOut.val)
    /\ Unwrap(poolOut.val).is_buy_eure = is_buy_eure
    /\ IsDecimalOf(Unwrap(poolOut.val).sdai_amount, sdai)
    /\ IsDecimalOf(Unwrap(poolOut.val).eure_amount, eure)

\* the exact-assets-in join with both balances, both sent amounts and
\* sums that fit 256 bits
JoinExactIn ==
    /\ JoinDone
    /\ poolCall.userData = <<u256(1)>>
    /\ Len(poolCall.balances) = 2
    /\ Len(poolCall.returned) = 2
    /\ IsSome(checked_add(poolCall.balances[1], poolCall.returned[1]))
    /\ IsSome(checked_add(poolCall.balances[2], poolCall.returned[2]))

\* C13: the pool balances of the pro-rata computation of the join are
\* sDAI balance + sDAI sent and EURe balance + EURe sent.
C13_PostEntryBalances ==
    JoinExactIn =>
        SameOutcome(JoinPoolBalances(JoinIn, poolCall.returned),
                    Ok(<<BigAdd(poolCall.balances[1], poolCall.returned[1]),
                         BigAdd(poolCall.balances[2], poolCall.returned[2])>>))

\* the pro-rata values the join compares the sent amounts with
JoinFromBpt ==
    IF ~JoinPoolBalances(JoinIn, poolCall.returned).ok
       \/ AccountLoads = << >> \/ AccountStores = << >>
    THEN Err("") ELSE
    IF BigLt(AccountStores[1], AccountLoads[1]) THEN Err("") ELSE
    compute_sdai_eure_from_bpt(
        PoolState, poolCall.sub_trace_address,
        BigSub(AccountStores[1], AccountLoads[1]), TRUE,
        JoinPoolBalances(JoinIn, poolCall.returned).val)

\* C14: the exact-assets-in join returns 'no swap' exactly when both sent
\* amounts are greater than their pro-rata values or both are equal to
\* them.
C14_NoSwapCases ==
    JoinExactIn /\ JoinFromBpt.ok =>
        (PoolNoSwap <=>
            \/ /\ BigLt(JoinFromBpt.val[1], poolCall.returned[1])
               /\ BigLt(JoinFromBpt.val[2], poolCall.returned[2])
            \/ /\ BigCmp(JoinFromBpt.val[1], poolCall.returned[1]) = 0
               /\ BigCmp(JoinFromBpt.val[2], poolCall.returned[2]) = 0)

\* the exact-assets-out exit
ExitExactOut ==
    /\ ExitDone
    /\ Len(poolCall.userData) = 6
    /\ poolCall.userData[1] = u256(1)

\* C15: the shares minted by a join are the Last value stored to the
\* recipient's slot in the frame of the call minus the First value loaded
\* from it, the shares burned by an exact-assets-out exit the First value
\* loaded minus the Last value stored; a negative difference or a missing
\* value is an error.
C15_FirstLoadToLastStore ==
    /\ JoinExactIn =>
          SameOutcome(poolOut,
              JoinShares(PoolState, poolCall.sub_trace_address,
                         poolCall.returned[1], poolCall.returned[2],
                         JoinPoolBalances(JoinIn, poolCall.returned).val,
                         First(AccountLoads), Last(AccountStores)))
    /\ ExitExactOut =>
          SameOutcome(poolOut,
              ExitShares(PoolState, poolCall.sub_trace_address, ExitIn,
                         First(AccountLoads), Last(AccountStores)))

\* C16: the sub-kind of a join or exit is the value of the first 32-byte
\* word of userData: join 0 'no swap', 1 exact-assets-in, every other value
\* and a payload without the word an error; exit 0 single-asset-out, 1
\* exact-assets-out, 2 'no swap', every other value and a payload without
\* the word an error.
C16_KindIsTagValue ==
    /\ JoinDone =>
          IF poolCall.userData = << >> THEN PoolFailed ELSE
          CASE BigIsZero(poolCall.userData[1]) -> PoolNoSwap
            [] poolCall.userData[1] = u256(1) ->
                  SameOutcome(poolOut,
                      compute_join_pool_exact_asset_to_bpt(
                          PoolState, poolCall.sub_trace_address, JoinIn,
                          poolCall.returned))
            [] OTHER -> PoolFailed
    /\ ExitDone =>
          IF poolCall.userData = << >> THEN PoolFailed ELSE
          CASE BigIsZero(poolCall.userData[1]) ->
                  SameOutcome(poolOut,
                      compute_exit_pool_exact_bpt_to_one_asset(
                          PoolState, poolCall.sub_trace_address, ExitIn,
                          poolCall.returned))
            [] poolCall.userData[1] = u256(1) ->
                  SameOutcome(poolOut,
                      compute_exit_pool_bpt_to_exact_assets(
                          PoolState, poolCall.sub_trace_address, ExitIn,
                          poolCall.returned))
            [] poolCall.userData[1] = u256(2) -> PoolNoSwap
            [] OTHER -> PoolFailed

\* the single-asset-out exit with the shares sent, both received amounts
\* and pro-rata values of the shares sent
ExitOneAssetOut ==
    /\ ExitDone
    /\ Len(poolCall.userData) = 2
    /\ BigIsZero(poolCall.userData[1])
    /\ Len(poolCall.returned) = 2
    /\ compute_sdai_eure_from_bpt(PoolState, poolCall.sub_trace_address,
                                  poolCall.userData[2], FALSE,
                                  poolCall.balances).ok
ExitOneFromBpt ==
    compute_sdai_eure_from_bpt(PoolState, poolCall.sub_trace_address,
                               poolCall.userData[2], FALSE,
                               poolCall.balances).val

\* C17: the single-asset-out exit burns the shares of the word at bytes
\* [32, 64) of userData and returns a Swap only when exactly one received
\* amount is greater than zero: only sDAI, (false, received - pro-rata
\* sDAI, pro-rata EURe); only EURe, (true, pro-rata sDAI, received -
\* pro-rata EURe); an error when both are greater than zero or the received
\* amount is less than its pro-rata value.
C17_OneAssetOut ==
    ExitOneAssetOut =>
        CASE ~BigIsZero(poolCall.returned[1]) /\ BigIsZero(poolCall.returned[2]) ->
                IF BigLt(poolCall.returned[1], ExitOneFromBpt[1])
                THEN PoolFailed
                ELSE PoolRecordIs(FALSE,
                         BigSub(poolCall.returned[1], ExitOneFromBpt[1]),
                         ExitOneFromBpt[2])
          [] BigIsZero(poolCall.returned[1]) /\ ~BigIsZero(poolCall.returned[2]) ->
                IF BigLt(poolCall.returned[2], ExitOneFromBpt[2])
                THEN PoolFailed
                ELSE PoolRecordIs(TRUE, ExitOneFromBpt[1],
                         BigSub(poolCall.returned[2], ExitOneFromBpt[2]))
          [] ~BigIsZero(poolCall.returned[1]) /\ ~BigIsZero(poolCall.returned[2]) ->
                PoolFailed
          [] OTHER -> ~(poolOut.ok /\ IsSome(poolOut.val))

\* the exact-assets-out exit that reaches the comparison: the amounts asked
\* for (s, e) and the pro-rata values (sp, ep) of the shares burned
ExitExactFromBpt ==
    IF AccountLoads = << >> \/ AccountStores = << >> THEN Err("") ELSE
    IF BigLt(AccountLoads[1], AccountStores[1]) THEN Err("") ELSE
    compute_sdai_eure_from_bpt(
        PoolState, poolCall.sub_trace_address,
        BigSub(AccountLoads[1], AccountStores[1]), FALSE, poolCall.balances)
ExitExactCompared == ExitExactOut /\ ExitExactFromBpt.ok
AskedSdai == poolCall.userData[5]
AskedEure == poolCall.userData[6]
AbsDiff(x, y) == IF BigLt(x, y) THEN BigSub(y, x) ELSE BigSub(x, y)

\* the cases of one amount asked for being zero, in C18 and as stated
ExitExactOneSided ==
    CASE BigIsZero(AskedEure) ->
            IF BigLt(AskedSdai, ExitExactFromBpt.val[1]) THEN PoolFailed
            ELSE PoolRecordIs(FALSE,
                     BigSub(AskedSdai, ExitExactFromBpt.val[1]),
                     ExitExactFromBpt.val[2])
      [] OTHER ->
            IF BigLt(AskedEure, ExitExactFromBpt.val[2]) THEN PoolFailed
            ELSE PoolRecordIs(TRUE, ExitExactFromBpt.val[1],
                     BigSub(AskedEure, ExitExactFromBpt.val[2]))

\* C18 as stated: with both amounts non-zero a Swap is returned iff one
\* asset is at or above its pro-rata value and the other at or below it
C18_Original ==
    ExitExactCompared =>
        /\ poolOut.ok \/ poolOut.err # "Unknown assets received"
        /\ IF BigIsZero(AskedEure) \/ BigIsZero(AskedSdai)
           THEN ExitExactOneSided
           ELSE IF \/ /\ BigLe(ExitExactFromBpt.val[1], AskedSdai)
                      /\ BigLe(AskedEure, ExitExactFromBpt.val[2])
                   \/ /\ BigLe(AskedSdai, ExitExactFromBpt.val[1])
                      /\ BigLe(ExitExactFromBpt.val[2], AskedEure)
                THEN PoolRecordIs(BigLt(AskedSdai, ExitExactFromBpt.val[1]),
                         AbsDiff(AskedSdai, ExitExactFromBpt.val[1]),
                         AbsDiff(AskedEure, ExitExactFromBpt.val[2]))
                ELSE PoolFailed

\* C18: in the exact-assets-out exit with amounts asked for (s, e) and
\* pro-rata values (sp, ep): e = 0 gives Swap(false, s - sp, ep) or an
\* error when s < sp; s = 0 < e gives Swap(true, sp, e - ep) or an error
\* when e < ep; both non-zero and s >= sp gives Swap(false, s - sp, ep - e)
\* or an error when e > ep; both non-zero and s < sp gives Swap(true,
\* sp - s, e - ep) or an error when e < ep. The 'Unknown assets received'
\* arm is never reached.
C18_ExactAssetsOut ==
    ExitExactCompared =>
        /\ poolOut.ok \/ poolOut.err # "Unknown assets received"
        /\ IF BigIsZero(AskedEure) \/ BigIsZero(AskedSdai)
           THEN ExitExactOneSided
           ELSE IF BigLe(ExitExactFromBpt.val[1], AskedSdai)
                THEN IF BigLt(ExitExactFromBpt.val[2], AskedEure)
                     THEN PoolFailed
                     ELSE PoolRecordIs(FALSE,
                              BigSub(AskedSdai, ExitExactFromBpt.val[1]),
                              BigSub(ExitExactFromBpt.val[2], AskedEure))
                ELSE IF BigLt(AskedEure, ExitExactFromBpt.val[2])
                     THEN PoolFailed
                     ELSE PoolRecordIs(TRUE,
                              BigSub(ExitExactFromBpt.val[1], AskedSdai),
                              BigSub(AskedEure, ExitExactFromBpt.val[2]))

\* one share burned, worth 1 sDAI and 2 EURe; 3 sDAI and 1 EURe asked for
C18_Witness ==
    /\ ExitExactCompared
    /\ ExitExactFromBpt.val = <<ONE, Ones(2)>>
    /\ AskedSdai = Ones(3)
    /\ AskedEure = ONE
    /\ poolOut = Ok(Some(Swap(FALSE, U256_to_string(Ones(2)),
                              U256_to_string(ONE))))

(***************************************************************************)
(* Specification of a run of fetch_swap_csv: the node delivers the         *)
(* call-trace entries one after the other.                                 *)
(***************************************************************************)
MaxBatchEntries == 2

\* a packed price-cache word: last update, duration, old and new price
PackedSnapshot(last_update, duration, price_old, price_new) ==
    BigAdd(BigAdd(BigMul(u256(last_update), BigMul(TWO128, TWO96)),
                  BigMul(u256(duration), BigMul(TWO96, TWO96))),
           BigAdd(BigMul(price_old, TWO96), price_new))

\* a transaction whose first nested call loads both price-cache slots
PriceTrace ==
    VmTrace(IndexCode,
        <<CallInstruction(VmTrace(IndexCode,
            <<PushInstruction(SDAI_PRICE_CACHE_KEY),
              SloadInstruction(PackedSnapshot(1700000000, 3600, ONE,
                                              BigAdd(ONE, u256(5)))),
              PushInstruction(EURE_PRICE_CACHE_KEY),
              SloadInstruction(PackedSnapshot(1700000060, 3600,
                                              BigAdd(ONE, u256(7)), ONE))>>))>>)

\* a join by Account at sub-path <<0>> whose frame also loads both
\* price-cache slots
PricedJoinTrace ==
    ShareTraceOf(<<Ones(100)>>, <<Ones(1100)>>,
                 Unwrap(PriceTrace.ops[1].sub).ops
                 \o LoadOps(balance_key(Account), <<Ones(5)>>)
                 \o StoreOps(balance_key(Account), <<Ones(6)>>))

\* the call path of the entry and the VM trace of its transaction
BatchSettings ==
    {[path |-> <<0>>, tx_vm_trace |-> PriceTrace],
     [path |-> <<0>>, tx_vm_trace |-> ShareTrace],
     [path |-> <<0>>, tx_vm_trace |-> PricedJoinTrace],
     [path |-> << >>, tx_vm_trace |-> PriceTrace],
     [path |-> <<2, 0>>, tx_vm_trace |-> PriceTrace]}

DirectSwapCall ==
    onSwapCall(SwapRequest("GIVEN_IN", SDAI_ADDRESS, EURE_ADDRESS, ONE),
               FullBalances)
SameTokenSwapCall ==
    onSwapCall(SwapRequest("GIVEN_IN", SDAI_ADDRESS, SDAI_ADDRESS, ONE),
               FullBalances)
SwapReturn == BigMul(u256(95), BigPow(u256(10), 16))
ComputedSwap ==
    Swap(FALSE, U256_to_string(u256(3)), U256_to_string(u256(4)))

DirectSwap == Decoding(Some(DirectSwapCall), Some(SwapReturn))
SameTokenSwap == Decoding(Some(SameTokenSwapCall), Some(SwapReturn))
SwapInputOnly == Decoding(Some(DirectSwapCall), None)
FetchedJoin(tag) ==
    onJoinPoolCall(Account, <<Ones(998), Ones(1998)>>, <<tag>>)
JoinInputOnly == Decoding(Some(FetchedJoin(u256(0))), None)
JoinInit == Decoding(Some(FetchedJoin(u256(0))), Some(<<Ones(2), Ones(1)>>))
JoinExactTokens ==
    Decoding(Some(FetchedJoin(u256(1))), Some(<<Ones(2), Ones(1)>>))
ExitExactAssets ==
    Decoding(Some(onExitPoolCall(Account, FullBalances, <<u256(2)>>)),
             Some(<< >>))
ExitUnknownKind ==
    Decoding(Some(onExitPoolCall(Account, FullBalances, <<u256(9)>>)),
             Some(<< >>))

\* what the three decoders are given for one entry
Decodings(on_swap, on_join_pool, on_exit_pool) ==
    [on_swap |-> on_swap, on_join_pool |-> on_join_pool,
     on_exit_pool |-> on_exit_pool]

EntryDecodings ==
    {Decodings(NotDecoded, NotDecoded, NotDecoded),
     Decodings(DirectSwap, NotDecoded, NotDecoded),
     Decodings(SameTokenSwap, NotDecoded, NotDecoded),
     Decodings(SwapInputOnly, NotDecoded, NotDecoded),
     Decodings(NotDecoded, JoinInputOnly, NotDecoded),
     Decodings(NotDecoded, JoinInit, NotDecoded),
     Decodings(NotDecoded, JoinExactTokens, NotDecoded),
     Decodings(NotDecoded, NotDecoded, ExitExactAssets),
     Decodings(NotDecoded, NotDecoded, ExitUnknownKind),
     Decodings(DirectSwap, JoinExactTokens, NotDecoded),
     Decodings(DirectSwap, JoinExactTokens, ExitExactAssets)}

GoodEntry(setting, decodings) ==
    LocalizedTransactionTrace(FALSE, Some(SwapTxHash), setting.path, Some(0),
                              Some(TRUE), TRUE, TRUE, decodings.on_swap,
                              decodings.on_join_pool, decodings.on_exit_pool,
                              setting.tx_vm_trace)

\* entries that end before the decoders
EarlyEntry(error, transaction_hash, block_number, receipt_status, is_call, has_result) ==
    LocalizedTransactionTrace(error, transaction_hash, <<0>>, block_number,
                              receipt_status, is_call, has_result, DirectSwap,
                              NotDecoded, NotDecoded, PriceTrace)

BatchEntries ==
    {GoodEntry(setting, decodings) :
        setting \in BatchSettings, decodings \in EntryDecodings}
    \cup
    {EarlyEntry(TRUE, Some(SwapTxHash), Some(0), Some(TRUE), TRUE, TRUE),
     EarlyEntry(FALSE, None, Some(0), Some(TRUE), TRUE, TRUE),
     EarlyEntry(FALSE, Some(SwapTxHash), None, Some(TRUE), TRUE, TRUE),
     EarlyEntry(FALSE, Some(SwapTxHash), Some(0), None, TRUE, TRUE),
     EarlyEntry(FALSE, Some(SwapTxHash), Some(0), Some(FALSE), TRUE, TRUE),
     EarlyEntry(FALSE, Some(SwapTxHash), Some(0), Some(TRUE), FALSE, TRUE),
     EarlyEntry(FALSE, Some(SwapTxHash), Some(0), Some(TRUE), TRUE, FALSE)}

\* a row read back from data/swaps.csv by SwapFetcher::try_new
KnownRow ==
    SwapCsvRow(ComputedSwap, 0, 1000, SwapTxHash, stringify_vec_usize(<<0>>),
               PriceCacheInfo_try_from(u256(0)).val,
               PriceCacheInfo_try_from(u256(0)).val)

\* SwapFetcher::try_new, then fetch_swap_csv up to its loop
InitFetcher ==
    /\ \/ swap_csv_by_tx_hash_trace_path = EmptyMap
       \/ swap_csv_by_tx_hash_trace_path =
             (<<KnownRow.tx_hash, KnownRow.trace_path>> :> KnownRow)
    /\ swaps_csv = << >>
    /\ swap_csv_vec = << >>
    /\ fsStatus = "running"
    /\ fsError = ""
    /\ fsCount = 0
    /\ fsEntry = NoEntry
    /\ fsStep = NoStep
    /\ fsDumps = << >>
    /\ InitTimestamps
    /\ IdleExceptFetcher

\* one iteration of the loop of fetch_swap_csv, the list the node returned
\* being made of entries of the given set
FetchEntryFrom(entries) ==
    /\ fsStatus = "running"
    /\ fsCount < MaxBatchEntries
    /\ \E entry \in entries, node_timestamp \in NodeTimestamps :
          \E end \in {FetchEntryEnd(entry,
                                    DOMAIN swap_csv_by_tx_hash_trace_path,
                                    BlockTimestampFetcher(
                                        block_timestamp_by_number,
                                        block_number_by_timestamp, blocks_csv),
                                    node_timestamp)} :
              /\ fsEntry' = entry
              /\ fsCount' = fsCount + 1
              /\ fsStatus' = end.status
              /\ fsError' = end.error
              /\ fsStep' = [decoded |-> end.decoded, kinds |-> end.kinds,
                            handed |-> end.handed, record |-> end.record]
              /\ fsDumps' = fsDumps \o end.dumps
              /\ block_timestamp_by_number' = end.fetcher.block_timestamp_by_number
              /\ block_number_by_timestamp' = end.fetcher.block_number_by_timestamp
              /\ blocks_csv' = end.fetcher.csv
              /\ IF IsSome(end.record)
                 THEN LET swap_csv == Unwrap(end.record)
                      IN  /\ swap_csv_by_tx_hash_trace_path' =
                                MapInsert(swap_csv_by_tx_hash_trace_path,
                                          <<swap_csv.tx_hash, swap_csv.trace_path>>,
                                          swap_csv)
                          /\ swaps_csv' = Append(swaps_csv, swap_csv)
                          /\ swap_csv_vec' = Append(swap_csv_vec, swap_csv)
                 ELSE UNCHANGED <<swap_csv_by_tx_hash_trace_path, swaps_csv,
                                  swap_csv_vec>>
    /\ UNCHANGED notFetcherVars

\* one iteration of the loop over the entries of a single batch
FetchEntry == FetchEntryFrom(BatchEntries)

\* the list of entries is exhausted: fetch_swap_csv returns Ok(swap_csv_vec)
FetchSwapCsvReturn ==
    /\ fsStatus = "running"
    /\ fsStatus' = "ok"
    /\ UNCHANGED <<swap_csv_by_tx_hash_trace_path, swaps_csv, swap_csv_vec,
                   fsError, fsCount, fsEntry, fsStep, fsDumps, timestampVars,
                   notFetcherVars>>

NextFetcher == FetchEntry \/ FetchSwapCsvReturn

SpecFetcher == InitFetcher /\ [][NextFetcher]_vars

(***************************************************************************)
(* Claims on the classification of an entry by fetch_swap_csv              *)
(***************************************************************************)
MutuallyExclusiveError ==
    "onSwap(), onJoinPool() and onExitPool() are mutually exclusive"

\* the run stands without error after the entry
EntryPassed == fsStatus \in {"running", "ok"}

\* C9: for every entry that reaches the three decoders: when no signature
\* decodes the entry is skipped with no error and no record; when exactly one
\* decodes the entry is handed to the reconstructor of that kind and to no
\* other; when more than one decodes the run fails with the "mutually
\* exclusive" error, no reconstructor is called and no record is produced.
C9_ClassificationDispatch ==
    fsStep.decoded =>
        /\ fsStep.kinds = {} =>
              EntryPassed /\ fsStep.handed = {} /\ fsStep.record = None
        /\ Cardinality(fsStep.kinds) = 1 => fsStep.handed = fsStep.kinds
        /\ Cardinality(fsStep.kinds) > 1 =>
              /\ fsStatus = "err"
              /\ fsError = MutuallyExclusiveError
              /\ fsStep.handed = {}
              /\ fsStep.record = None

(***************************************************************************)
(* Claims on missing data and on the failure of a reconstruction           *)
(***************************************************************************)
\* an entry has been processed and it carries no error marker
PlainEntryProcessed == fsCount > 0 /\ ~fsEntry.error

\* C19: for every entry that is not an error entry, the absence of its
\* transaction hash, of its block number or of its result ends the run with
\* an error, the entry is never skipped; an entry with an error marker is
\* skipped without error before any of these checks.
C19_MissingDataIsFatal ==
    /\ (PlainEntryProcessed
        /\ (\/ IsNone(fsEntry.transaction_hash)
            \/ IsNone(fsEntry.block_number)
            \/ ~fsEntry.has_result)) => fsStatus = "err"
    /\ (fsCount > 0 /\ fsEntry.error) => EntryPassed /\ fsStep = NoStep

\* the reconstructor of the entry was called and returned an error
ReconstructionFailed == fsStatus = "err" /\ fsStep.handed # {}

\* C20: whenever the reconstruction of a classified call returns an error,
\* the dump of the full transaction trace and the dump of the sub-trace are
\* written when fetch_swap_csv returns the error; the failing call gets no
\* record, and after the error no entry is processed and nothing is
\* fetched, written or retried.
C20_DumpsThenAbort ==
    /\ [](ReconstructionFailed =>
            /\ fsStep.record = None
            /\ Len(fsDumps) = 2
            /\ fsDumps[1].prepend_name = "full"
            /\ fsDumps[2].prepend_name = "sub"
            /\ \A i \in 1..2 :
                  fsDumps[i].tx_hash =
                      B256_to_string(Unwrap(fsEntry.transaction_hash))
            /\ fsError \in {"Failed to process onSwap trace",
                            "Failed to process onJoinPool trace",
                            "Failed to process onExitPool trace"})
    /\ [][/\ fsStatus = "err" => UNCHANGED <<fetcherVars, timestampVars>>
          /\ fsStatus' = "err" =>
                UNCHANGED <<swap_csv_by_tx_hash_trace_path, swaps_csv,
                            swap_csv_vec>>]_vars

\* the second entry of the batch is a join whose reconstruction fails
C20_Witness ==
    /\ ReconstructionFailed
    /\ fsCount = 2
    /\ fsStep.handed = {"onJoinPool"}
    /\ fsError = "Failed to process onJoinPool trace"
    /\ fsDumps = <<[prepend_name |-> "full",
                    tx_hash |-> B256_to_string(SwapTxHash)],
                   [prepend_name |-> "sub",
                    tx_hash |-> B256_to_string(SwapTxHash)]>>

(***************************************************************************)
(* PriceCacheInfo::try_from over packed price-cache words                  *)
(***************************************************************************)
\* the values of the two 4-byte fields and of the two 12-byte fields
LastUpdates == {u256(0), u256(1), u256(1700000000), BigSub(TWO32, <<1>>)}
Durations == {u256(0), u256(3600), BigSub(TWO32, <<1>>)}
OldPrices == {u256(0), ONE, BigSub(TWO96, <<1>>)}
NewPrices == {u256(0), BigAdd(ONE, u256(5)), BigSub(TWO96, <<1>>)}

\* the 32-byte word that holds the four values, most significant first
PackedWord(last_update, duration, price_old, price_new) ==
    BigAdd(BigMul(BigAdd(BigMul(BigAdd(BigMul(last_update, TWO32), duration),
                                TWO96),
                         price_old),
                  TWO96),
           price_new)

PriceCacheWords ==
    {PackedWord(l, d, o, n) :
        l \in LastUpdates, d \in Durations, o \in OldPrices, n \in NewPrices}

InitPriceCache ==
    /\ pcWord \in PriceCacheWords
    /\ pcDone = FALSE
    /\ pcOut = Err("")
    /\ IdleExceptPriceCache

PriceCacheInfoTryFrom ==
    /\ ~pcDone
    /\ pcDone' = TRUE
    /\ pcOut' = PriceCacheInfo_try_from(pcWord)
    /\ UNCHANGED <<pcWord, notPriceCacheVars>>

NextPriceCache == PriceCacheInfoTryFrom

SpecPriceCache == InitPriceCache /\ [][NextPriceCache]_vars

\* the n lowest bytes of w, most significant first
RECURSIVE BytesOf(_, _)
BytesOf(w, n) ==
    IF n = 0 THEN << >>
    ELSE LET qr == ShortDivFrom(w, 256, Len(w), 0)
             q == Norm(qr.q)
         IN  IF Len(q) >= 0 THEN Append(BytesOf(q, n - 1), qr.r) ELSE << >>

\* the big-endian value of bytes [from, to) of the byte sequence
RECURSIVE BytesValue(_, _, _)
BytesValue(bytes, from, to) ==
    IF to <= from THEN << >>
    ELSE LET high == BytesValue(bytes, from, to - 1)
         IN  IF Len(high) >= 0
             THEN BigAdd(BigMul(high, <<256>>), BigOfNat(bytes[to]))
             ELSE << >>

\* the big-endian value of bytes [from, to) of the 32-byte word of the call
WordBytes(from, to) == BytesValue(BytesOf(pcWord, 32), from, to)

\* C21: for every 32-byte word the conversion succeeds; last_update and
\* duration are the big-endian values of bytes [0,4) and [4,8), price_old
\* and price_new are the decimal numerals of the values of bytes [8,20) and
\* [20,32); the word is recovered from the four fields.
C21_PriceCacheFields ==
    pcDone =>
        /\ pcOut.ok
        /\ pcOut.val.last_update = WordBytes(0, 4)
        /\ pcOut.val.duration = WordBytes(4, 8)
        /\ IsDecimalOf(pcOut.val.price_old, WordBytes(8, 20))
        /\ IsDecimalOf(pcOut.val.price_new, WordBytes(20, 32))
        /\ PackedWord(pcOut.val.last_update, pcOut.val.duration,
                      DecimalValue(pcOut.val.price_old),
                      DecimalValue(pcOut.val.price_new)) = pcWord

\* a word whose four fields are all set and whose two prices differ
C21_Witness ==
    /\ pcDone
    /\ pcOut.ok
    /\ pcOut.val.last_update = u256(1700000000)
    /\ pcOut.val.duration = u256(3600)
    /\ pcOut.val.price_old = U256_to_string(ONE)
    /\ pcOut.val.price_new = U256_to_string(BigAdd(ONE, u256(5)))

(***************************************************************************)
(* Specification of the frame of a call: as in fetch_state_by_sub_path, a  *)
(* trace is resolved along a one-segment call path by extract_sub_vm_trace *)
(* and indexed by StateBySubPath::new, one instruction at a time.          *)
(***************************************************************************)
MaxFrameInstructions == 4

\* an instruction at a program counter past the end of the bytecode
FarInstruction(v) ==
    VmInstruction(Len(IndexCode), Some(VmExecutedOperation(<<v>>, None)), None)
\* an instruction at the SLOAD that has no executed operation
BareSloadInstruction == VmInstruction(1, None, None)
\* an instruction that pushed two values
PushPairInstruction(first, last) ==
    VmInstruction(0, Some(VmExecutedOperation(<<first, last>>, None)), None)

FrameBase ==
    {StoreInstruction(K1, V1), PushInstruction(console_address),
     SloadInstruction(V5), PlainInstruction, FarInstruction(V5),
     BareSloadInstruction, PushPairInstruction(K2, K1)}
FrameTraces == TracesUpTo(MaxFrameInstructions, FrameBase, IndexCode)
FramePaths == {<<n>> : n \in 0..MaxPathSegment}

InitFrames ==
    /\ ixTrace \in FrameTraces
    /\ ixStack = <<Frame(ixTrace, << >>, 1, 0)>>
    /\ ixBuilt = FALSE
    /\ load_map = EmptyMap
    /\ store_map = EmptyMap
    /\ lkQuery = IdleQuery
    /\ lkRes = None
    /\ rsTrace = ixTrace
    /\ rsPath \in FramePaths
    /\ rsDone = FALSE
    /\ rsRes = Err("")
    /\ IdleMath /\ IdleTimestamps /\ IdleOnSwap /\ IdleFetcher /\ IdlePool
    /\ IdlePriceCache

NextFrames ==
    \/ ExtractSubVmTrace
    \/ FindStorageValueStep
    \/ FindStorageValueReturn

SpecFrames == InitFrames /\ [][NextFrames]_vars

(***************************************************************************)
(* Claims on the numbering of the nested traces and on the events          *)
(***************************************************************************)
\* the number of non-empty nested traces among the first n instructions
NestedBefore(ops, n) == Cardinality({j \in NestedIndices(ops) : j <= n})

\* every frame of the call stack of find_storage_value but the root is the
\* non-empty nested trace of the instruction its caller has just passed,
\* under the caller's sub-path followed by the number of non-empty nested
\* traces before that instruction; the counter of a frame is the number of
\* non-empty nested traces among the instructions it has passed
StackNumbering ==
    \A d \in 1..Len(ixStack) :
        LET frame == ixStack[d]
        IN  /\ frame.sub_path_counter =
                  NestedBefore(frame.vm_trace.ops, frame.position - 1)
            /\ d = 1 => frame.vm_trace = ixTrace /\ frame.sub_path = << >>
            /\ d > 1 =>
                  LET caller == ixStack[d - 1]
                      i == caller.position - 1
                  IN  /\ i \in NestedIndices(caller.vm_trace.ops)
                      /\ frame.vm_trace = Unwrap(caller.vm_trace.ops[i].sub)
                      /\ frame.sub_path =
                            Append(caller.sub_path,
                                   NestedBefore(caller.vm_trace.ops, i - 1))

\* the instruction the loop is at carries a non-empty nested trace
AtNestedTrace ==
    /\ ixStack # << >>
    /\ ixStack[Len(ixStack)].position \in
          NestedIndices(ixStack[Len(ixStack)].vm_trace.ops)

\* C22: while a frame is indexed, its k-th non-empty nested trace (k from
\* 0) is indexed under the frame's sub-path followed by k; an instruction
\* without nested trace or with an empty one is not recursed into and does
\* not advance k, a logging pseudo-call included.
C22_NonEmptyNestedNumbered ==
    /\ []StackNumbering
    /\ [][ixStack' # ixStack =>
            (Len(ixStack') > Len(ixStack) <=> AtNestedTrace)]_vars

\* the root has a logging pseudo-call (an empty nested trace after a push
\* of the logging address) before its first non-empty nested trace, which
\* is being indexed under [0]
C22_Witness ==
    /\ Len(ixStack) = 2
    /\ Len(ixTrace.ops) = 3
    /\ PushesConsole(ixTrace.ops[1])
    /\ ixTrace.ops[2].sub = Some(VmTrace(IndexCode, << >>))
    /\ ixStack[1].position = 4
    /\ ixStack[2].sub_path = <<0>>
    /\ ixStack[2].vm_trace = Unwrap(ixTrace.ops[3].sub)

\* the list of map at (k, p) after value v of key key is recorded at path
RecordedAt(map, k, p, key, path, v) ==
    IF k = key /\ p = path THEN Append(ListAt(map, k, p), v) ELSE ListAt(map, k, p)

\* mapNext is map with one more value, v of key key at path, when recorded
\* holds, and map itself otherwise
OneEventMore(map, mapNext, recorded, key, path, v) ==
    LET keys == DOMAIN map \cup DOMAIN mapNext
        paths == MapPaths(map) \cup MapPaths(mapNext)
    IN  IF recorded
        THEN \A k \in keys \cup {key}, p \in paths \cup {path} :
                ListAt(mapNext, k, p) = RecordedAt(map, k, p, key, path, v)
        ELSE mapNext = map

\* the loop of find_storage_value passes instruction i of its frame: a load
\* is recorded exactly when IsLoadAt holds, a store exactly when IsStoreAt
\* holds, at the sub-path of the frame, and the loop goes on
StepRecordsEvents ==
    LET frame == ixStack[Len(ixStack)]
        i == frame.position
        node == frame.vm_trace
        after == ixStack'[Len(ixStack)]
    IN  i <= Len(node.ops) =>
            /\ OneEventMore(load_map, load_map', IsLoadAt(node, i),
                            IF IsLoadAt(node, i) THEN LoadKeyAt(node, i) ELSE << >>,
                            frame.sub_path,
                            IF IsLoadAt(node, i) THEN LoadValueAt(node, i) ELSE << >>)
            /\ OneEventMore(store_map, store_map', IsStoreAt(node, i),
                            IF IsStoreAt(node, i) THEN StoreKeyAt(node, i) ELSE << >>,
                            frame.sub_path,
                            IF IsStoreAt(node, i) THEN StoreValueAt(node, i) ELSE << >>)
            /\ after.position = i + 1

\* C23: passing instruction i of a frame records a load (key, value) at the
\* frame's sub-path iff the bytecode at the program counter of instruction
\* i + 1 is 0x54 and both instructions pushed, key and value being the last
\* values pushed by i and by i + 1; a counter outside the bytecode or a
\* missing push records nothing and the walk goes on; it records a store
\* iff the instruction carries a storage write, the last instruction of
\* the frame included.
C23_LoadAndStoreDetection ==
    [][(ixStack # << >> /\ ixStack' # ixStack) => StepRecordsEvents]_vars

\* a load whose key is the last of two pushes, then an SLOAD followed by an
\* instruction outside the bytecode, then a store as the last instruction
C23_Witness ==
    /\ ixBuilt
    /\ ixTrace.ops = <<PushPairInstruction(K2, K1), SloadInstruction(V5),
                       FarInstruction(V5), StoreInstruction(K1, V1)>>
    /\ DOMAIN load_map = {K1}
    /\ ListAt(load_map, K1, << >>) = <<V5>>
    /\ ListAt(store_map, K1, << >>) = <<V1>>

(***************************************************************************)
(* Claim on the calls that do not decode                                   *)
(***************************************************************************)
\* the trace has a result whose output bytes do not decode as the return
\* of onSwap
OutputNotDecoded ==
    IF IsSome(osCall.result)
    THEN IsNone(Unwrap(osCall.result).decoded_out)
    ELSE FALSE

\* calls of the join and exit signatures of which the input, the output
\* or both do not decode
HalfDecoded ==
    {NotDecoded, JoinInputOnly, Decoding(None, Some(<<Ones(2), Ones(1)>>)),
     Decoding(Some(onExitPoolCall(Account, FullBalances, <<u256(2)>>)), None)}

\* C24: a call whose input does not decode against a signature, or whose
\* input decodes and whose output does not decode against the matching
\* return shape, is reported as not of this kind (Ok(None)) and never as
\* an error, for onSwap as for onJoinPool and onExitPool.
C24_UndecodedIsNotThisKind ==
    /\ (osDone /\ (IsNone(osCall.decoded_in) \/ OutputNotDecoded))
           => osOut = Returned(Ok(None))
    /\ \A decoding \in HalfDecoded :
          /\ decode_in_out_on_join_pool(decoding) = Ok(None)
          /\ decode_in_out_on_exit_pool(decoding) = Ok(None)

(***************************************************************************)
(* Claim on the price caches                                               *)
(***************************************************************************)
\* the entry reached the three decoders, one signature decoded, its call
\* path splits and the frame of its caller is resolved
ClassifiedOnce ==
    /\ fsStep.decoded
    /\ Cardinality(fsStep.kinds) = 1
    /\ ~SplitLastPanics(fsEntry.trace_address)
    /\ fetch_sub_vm_trace(fsEntry.tx_vm_trace,
                          SplitLastHead(fsEntry.trace_address)).ok

\* what the reconstructor of the decoded kind returns for the entry on the
\* index of the frame of its caller
Reconstructed(entry, state_by_sub_path, sub_trace_address) ==
    CASE IsSome(decode_in_out_on_swap(entry.on_swap).val) ->
            process_on_swap_trace(
                state_by_sub_path, sub_trace_address,
                Unwrap(entry.on_swap.input), Unwrap(entry.on_swap.output))
      [] IsSome(decode_in_out_on_join_pool(entry.on_join_pool).val) ->
            process_on_join_pool_trace(
                state_by_sub_path, sub_trace_address,
                Unwrap(entry.on_join_pool.input),
                Unwrap(entry.on_join_pool.output))
      [] OTHER ->
            process_on_exit_pool_trace(
                state_by_sub_path, sub_trace_address,
                Unwrap(entry.on_exit_pool.input),
                Unwrap(entry.on_exit_pool.output))

\* the entry ended as the outcome r of its reconstruction says: an error
\* of the run, no record, or the record of r
EndedAs(r) ==
    IF ~r.ok THEN fsStatus = "err" /\ fsStep.record = None
    ELSE IF IsNone(r.val) THEN EntryPassed /\ fsStep.record = None
    ELSE /\ EntryPassed
         /\ IsSome(fsStep.record)
         /\ Unwrap(fsStep.record).is_buy_eure = Unwrap(r.val).is_buy_eure
         /\ Unwrap(fsStep.record).sdai_amount = Unwrap(r.val).sdai_amount
         /\ Unwrap(fsStep.record).eure_amount = Unwrap(r.val).eure_amount

\* C25: the outcome of a classified call (record with its direction and
\* amounts, no swap, or error) is the outcome of its reconstruction,
\* whether or not the frame of the call loads the sDAI and the EURe
\* price-cache slot: without these loads the call is still handed to its
\* reconstructor and yields the same record.
C25_OutcomeIgnoresPriceCache ==
    ClassifiedOnce =>
        /\ fsStep.handed = fsStep.kinds
        /\ EndedAs(Reconstructed(
                       fsEntry,
                       StateBySubPath_new(
                           fetch_sub_vm_trace(
                               fsEntry.tx_vm_trace,
                               SplitLastHead(fsEntry.trace_address)).val),
                       SplitLastTail(fsEntry.trace_address)))

(***************************************************************************)
(* Claim on the direction and the amounts of the exact-assets-in join      *)
(***************************************************************************)
SentSdai == poolCall.returned[1]
SentEure == poolCall.returned[2]
PoolSwapReturned == poolOut.ok /\ IsSome(poolOut.val)

\* C26: when the exact-assets-in join returns a Swap, with sent amounts
\* (s, e) and pro-rata values (sp, ep): is_buy_eure is true iff ep > e and
\* then the amounts are s - sp and ep - e, it is false iff ep < e and then
\* the amounts are sp - s and e - ep; when both sent amounts are strictly
\* below their pro-rata values the call fails; with ep < e it never fails.
C26_JoinDirectionAndAmounts ==
    JoinExactIn /\ JoinFromBpt.ok =>
        /\ PoolSwapReturned =>
              /\ Unwrap(poolOut.val).is_buy_eure
                    <=> BigLt(SentEure, JoinFromBpt.val[2])
              /\ ~Unwrap(poolOut.val).is_buy_eure
                    <=> BigLt(JoinFromBpt.val[2], SentEure)
              /\ Unwrap(poolOut.val).is_buy_eure =>
                    /\ BigLe(JoinFromBpt.val[1], SentSdai)
                    /\ PoolRecordIs(TRUE,
                                    BigSub(SentSdai, JoinFromBpt.val[1]),
                                    BigSub(JoinFromBpt.val[2], SentEure))
              /\ ~Unwrap(poolOut.val).is_buy_eure =>
                    /\ BigLe(SentSdai, JoinFromBpt.val[1])
                    /\ PoolRecordIs(FALSE,
                                    BigSub(JoinFromBpt.val[1], SentSdai),
                                    BigSub(SentEure, JoinFromBpt.val[2]))
        /\ (BigLt(SentSdai, JoinFromBpt.val[1])
            /\ BigLt(SentEure, JoinFromBpt.val[2])) => PoolFailed
        /\ BigLt(JoinFromBpt.val[2], SentEure) => ~PoolFailed

\* a join that sold EURe for sDAI, both amounts non-zero
C26_Witness ==
    /\ JoinExactIn
    /\ JoinFromBpt.ok
    /\ PoolSwapReturned
    /\ ~Unwrap(poolOut.val).is_buy_eure
    /\ BigLt(SentSdai, JoinFromBpt.val[1])
    /\ BigLt(JoinFromBpt.val[2], SentEure)

(***************************************************************************)
(* Specification of the resumed download: SwapFetcher::try_new reads       *)
(* data/swaps.csv, fetch_swap_csv is called for one block range after the  *)
(* other, and the program is started again after its end or after an       *)
(* error.  swaps_csv is the whole file here.                               *)
(***************************************************************************)
\* try_new, lines 84-89: the rows of the file by (tx_hash, trace_path), a
\* later row replacing an earlier one
RECURSIVE LoadedRows(_, _)
LoadedRows(rows, n) ==
    IF n = 0 THEN EmptyMap
    ELSE MapInsert(LoadedRows(rows, n - 1),
                   <<rows[n].tx_hash, rows[n].trace_path>>, rows[n])

\* a call at [0] of transaction tx_hash, with its three decodings
ResumedCall(tx_hash, decodings) ==
    LocalizedTransactionTrace(FALSE, Some(tx_hash), <<0>>, Some(0), Some(TRUE),
                              TRUE, TRUE, decodings.on_swap,
                              decodings.on_join_pool, decodings.on_exit_pool,
                              PriceTrace)

\* two direct swaps of two transactions, the first join of the pool in a
\* third one, an entry with an error marker and one without transaction
\* hash
ResumedEntries ==
    {ResumedCall(SwapTxHash, Decodings(DirectSwap, NotDecoded, NotDecoded)),
     ResumedCall(BigAdd(SwapTxHash, <<1>>),
                 Decodings(DirectSwap, NotDecoded, NotDecoded)),
     ResumedCall(BigAdd(SwapTxHash, <<2>>),
                 Decodings(NotDecoded, JoinInit, NotDecoded)),
     EarlyEntry(TRUE, Some(SwapTxHash), Some(0), Some(TRUE), TRUE, TRUE),
     EarlyEntry(FALSE, None, Some(0), Some(TRUE), TRUE, TRUE)}

\* no data/swaps.csv, or one with the row of the call at [0] of SwapTxHash
InitResumed ==
    /\ swaps_csv \in {<< >>, <<KnownRow>>}
    /\ swap_csv_by_tx_hash_trace_path = LoadedRows(swaps_csv, Len(swaps_csv))
    /\ swap_csv_vec = << >>
    /\ fsStatus = "running"
    /\ fsError = ""
    /\ fsCount = 0
    /\ fsEntry = NoEntry
    /\ fsStep = NoStep
    /\ fsDumps = << >>
    /\ InitTimestamps
    /\ IdleExceptFetcher

FetchResumedEntry == FetchEntryFrom(ResumedEntries)

\* fetch_swap_csv is called again on the same SwapFetcher
FetchSwapCsvAgain ==
    /\ fsStatus \in {"ok", "err"}
    /\ fsStatus' = "running"
    /\ fsError' = ""
    /\ fsCount' = 0
    /\ fsEntry' = NoEntry
    /\ fsStep' = NoStep
    /\ swap_csv_vec' = << >>
    /\ UNCHANGED <<swap_csv_by_tx_hash_trace_path, swaps_csv, fsDumps,
                   timestampVars, notFetcherVars>>

\* the program is started again: SwapFetcher::try_new reads the file, then
\* fetch_swap_csv is called
TryNew ==
    /\ fsStatus \in {"ok", "err"}
    /\ swap_csv_by_tx_hash_trace_path' = LoadedRows(swaps_csv, Len(swaps_csv))
    /\ fsStatus' = "running"
    /\ fsError' = ""
    /\ fsCount' = 0
    /\ fsEntry' = NoEntry
    /\ fsStep' = NoStep
    /\ swap_csv_vec' = << >>
    /\ UNCHANGED <<swaps_csv, fsDumps, timestampVars, notFetcherVars>>

NextResumed ==
    \/ FetchResumedEntry
    \/ FetchSwapCsvReturn
    \/ FetchSwapCsvAgain
    \/ TryNew

SpecResumed == InitResumed /\ [][NextResumed]_vars

(***************************************************************************)
(* Claim on the records already fetched                                    *)
(***************************************************************************)
PairOf(row) == <<row.tx_hash, row.trace_path>>

\* no two rows of the file have the same (tx_hash, trace_path)
NoPairTwice ==
    \A i, j \in 1..Len(swaps_csv) :
        i # j => PairOf(swaps_csv[i]) # PairOf(swaps_csv[j])

\* the keys of the dedup map are the pairs of the rows of the file, those
\* read at start-up and those appended since
KeysAreRecordedPairs ==
    DOMAIN swap_csv_by_tx_hash_trace_path =
        {PairOf(swaps_csv[i]) : i \in 1..Len(swaps_csv)}

\* the step takes an entry that has its transaction hash and its block
\* number, no error marker, and whose pair is a key of the dedup map
TakesRecordedEntry ==
    /\ fsCount' = fsCount + 1
    /\ ~fsEntry'.error
    /\ IsSome(fsEntry'.transaction_hash)
    /\ IsSome(fsEntry'.block_number)
    /\ <<B256_to_string(Unwrap(fsEntry'.transaction_hash)),
         stringify_vec_usize(fsEntry'.trace_address)>>
          \in DOMAIN swap_csv_by_tx_hash_trace_path

ResolvedChild ==
    /\ rsDone
    /\ Descend(rsTrace, rsPath, 1).inRange
    /\ rsRes.ok
    /\ rsRes.val.ops # << >>

\* the lists of the index at path are the loads and the stores of node
ListsAre(node, path) ==
    \A k \in EventKeys({[sub_path |-> path, node |-> node]})
              \cup DOMAIN load_map \cup DOMAIN store_map :
        /\ ListAt(load_map, k, path) = LoadsOf(node, k, Len(node.ops))
        /\ ListAt(store_map, k, path) = StoresOf(node, k, Len(node.ops))

\* C28: for every trace T and one-segment path [n] that
\* extract_sub_vm_trace resolves to a non-empty nested trace X of T, the
\* index built by StateBySubPath::new(T) holds at sub-path [n] the loads
\* and the stores of X, also when counted logging pseudo-calls precede X.
C28_SameNumbering ==
    (ResolvedChild /\ ixBuilt) => ListsAre(rsRes.val, rsPath)

(***************************************************************************)
(* Claim on the split of the call path                                     *)
(***************************************************************************)
\* the entry reached the three decoders and at least one signature decoded
Classified == fsStep.decoded /\ fsStep.kinds # {}

\* C29: every classified entry, whatever the length of its call path, the
\* empty path included, ends with a record, a skip or an error value of
\* fetch_swap_csv; the split of the call path never panics.
C29_SplitNeverPanics ==
    Classified => fsStatus \in {"running", "ok", "err"}

(***************************************************************************)
(* Claims about the balances used by the swaps into the pool share token   *)
(***************************************************************************)
\* the share of the pool's supply that the received shares make, as
\* compute_bpt_ratio gives it on the index of the resolved trace
OnSwapMintRatio ==
    compute_bpt_ratio(
        StateBySubPath_new(
            fetch_sub_vm_trace(osCall.tx_vm_trace,
                               SplitLastHead(osCall.trace_address)).val),
        OnSwapReturned, TRUE, << >>, PositionFirst,
        SplitLastTail(osCall.trace_address), PositionLast)

\* the balance supplied with the call
SuppliedBalance(index) == Unwrap(Get(Unwrap(osCall.decoded_in).balances, index))

\* a swap of tokenIn for shares on a call that has both balances and a
\* share ratio
OnSwapMints(tokenIn) ==
    /\ OnSwapDirect(tokenIn, BALANCER_SDAI_EURE_POOL_ADDRESS)
    /\ OnSwapResolves
    /\ Len(Unwrap(osCall.decoded_in).balances) = 2
    /\ OnSwapMintRatio.ok

\* the supplied balance of the asset times the share ratio
SuppliedShare(index) == mul_up(SuppliedBalance(index), OnSwapMintRatio.val)

\* what is returned when the pro-rata values are those of the supplied
\* balances: the record when the request amount covers the value of the
\* input asset, an error otherwise
FromSuppliedBalances(is_buy_eure, index) ==
    IF SuppliedShare(SDAI_ARRAY_INDEX).ok /\ SuppliedShare(EURE_ARRAY_INDEX).ok
       /\ BigLe(SuppliedShare(index).val, OnSwapAmount)
    THEN OnSwapRecordIs(
             is_buy_eure,
             IF index = SDAI_ARRAY_INDEX
             THEN BigSub(OnSwapAmount, SuppliedShare(SDAI_ARRAY_INDEX).val)
             ELSE SuppliedShare(SDAI_ARRAY_INDEX).val,
             IF index = EURE_ARRAY_INDEX
             THEN BigSub(OnSwapAmount, SuppliedShare(EURE_ARRAY_INDEX).val)
             ELSE SuppliedShare(EURE_ARRAY_INDEX).val)
    ELSE OnSwapFailed

\* C30: in a swap of sDAI (resp. EURe) for shares, balance of the input
\* asset + request amount above 2^256 - 1 gives the error that names the
\* overflow; otherwise the outcome is the one computed from the balances
\* supplied with the call, the sum being stored nowhere.
C30_SuppliedBalancesUnchanged ==
    /\ OnSwapMints(SDAI_ADDRESS) =>
          IF OnSwapBalanceFits(SDAI_ARRAY_INDEX)
          THEN FromSuppliedBalances(TRUE, SDAI_ARRAY_INDEX)
          ELSE /\ OnSwapFailed
               /\ osOut.res.err =
                     "sDAI balance of the pool + sDAI swap amount overflow"
    /\ OnSwapMints(EURE_ADDRESS) =>
          IF OnSwapBalanceFits(EURE_ARRAY_INDEX)
          THEN FromSuppliedBalances(FALSE, EURE_ARRAY_INDEX)
          ELSE /\ OnSwapFailed
               /\ osOut.res.err =
                     "EURe balance of the pool + EURe swap amount overflow"

\* 1 sDAI for 0.95 share: the sum 1001 sDAI fits and the record is computed
\* from the supplied 1000 sDAI and 2000 EURe
C30_Witness ==
    /\ OnSwapMints(SDAI_ADDRESS)
    /\ OnSwapAmount = ONE
    /\ OnSwapReturned = BigMul(u256(95), BigPow(u256(10), 16))
    /\ SuppliedBalance(SDAI_ARRAY_INDEX) = BigMul(u256(1000), ONE)
    /\ OnSwapBalanceFits(SDAI_ARRAY_INDEX)
    /\ ~BigIsZero(SuppliedShare(SDAI_ARRAY_INDEX).val)
    /\ OnSwapRecordIs(TRUE,
                      BigSub(ONE, SuppliedShare(SDAI_ARRAY_INDEX).val),
                      SuppliedShare(EURE_ARRAY_INDEX).val)


====
